---- MODULE Spec2Model ----
(***************************************************************************)
(* Booking lifecycle, provider availability/slot computation and the       *)
(* matching/scheduling agent pipelines of the marketplace backend          *)
(* (backend/app/api/bookings.py, api/disputes.py, api/providers.py,        *)
(* services/scheduling.py, services/matching.py, agents/*.py).             *)
(*                                                                         *)
(* Time is counted in minutes since midnight of day 0; day d has weekday   *)
(* d % 7.  A database NULL is the value NULL for numeric columns and the   *)
(* string "none" for text/enum columns.                                    *)
(***************************************************************************)
EXTENDS Integers, Sequences, FiniteSets, TLC

VARIABLES
    bookings,      \* table bookings: sequence of rows, the id is the index
    providers,     \* table provider_profiles: statistics per provider
    availability,  \* table provider_availability: sequence of rows per provider
    time_off,      \* table provider_time_off: set of rows per provider
    disputes,      \* table disputes: the number of rows per booking id
    resp,          \* the HTTP response of the last handled request
    sessions,      \* per in-flight request: the ORM session's snapshot
    slotIn,        \* input of a direct call of _calculate_available_slots
    slotOut,       \* its result
    matchIn,       \* input of a direct call of find_matching_providers
    matchOut,      \* its result
    agent,         \* one agent object: circuit breaker, prompt cache, clock
    accounts,      \* tables users, customer_profiles, provider_profiles
    transactions   \* table payment_transactions: sequence of rows

vars == <<bookings, providers, availability, time_off, disputes, resp,
          sessions, slotIn, slotOut, matchIn, matchOut, agent,
          accounts, transactions>>

dbVars == <<bookings, providers, availability, time_off, disputes>>

(***************************************************************************)
(* Bounds of the model                                                     *)
(***************************************************************************)
MaxBookings == 1
MaxSlotBookings == 1
MaxCandidates == 6

(***************************************************************************)
(* Program constants                                                       *)
(***************************************************************************)
NULL == -1
DayMinutes == 1440
SlotIncrement == 30
DefaultDuration == 120
FallbackSlotCap == 5
FallbackConfidence == 8
MatchCap == 10
FallbackMatchCap == 5

(***************************************************************************)
(* Users, roles and profiles                                               *)
(***************************************************************************)
Users == {"c1", "c2", "p1", "p2", "adm"}
Customers == {"c1", "c2"}
Providers == {"p1", "p2"}

Role(u) ==
    IF u \in Customers THEN "customer"
    ELSE IF u \in Providers THEN "provider" ELSE "admin"

\* select(CustomerProfile).where(user_id == current_user.id): "none" when absent
CustomerProfileOf(u) == IF u \in Customers THEN u ELSE "none"
\* select(ProviderProfile).where(user_id == current_user.id): "none" when absent
ProviderProfileOf(u) == IF u \in Providers THEN u ELSE "none"

Statuses == {"requested", "accepted", "scheduled", "in_progress",
             "completed", "cancelled", "disputed"}

(***************************************************************************)
(* Dates and times                                                         *)
(***************************************************************************)
DateOf(t) == t \div DayMinutes
Weekday(d) == d % 7
Combine(d, m) == d * DayMinutes + m
\* datetime.isoformat(): the text "<date>T<time>", here the pair of its parts
IsoFormat(t) == <<t \div DayMinutes, t % DayMinutes>>
\* datetime.fromisoformat(), the reading of such a text
FromIsoFormat(text) == text[1] * DayMinutes + text[2]

Min(a, b) == IF a < b THEN a ELSE b
Max(a, b) == IF a > b THEN a ELSE b

(***************************************************************************)
(* SchedulingService._calculate_available_slots                            *)
(***************************************************************************)
\* next((a for a in availability if a.day_of_week == day_of_week), None)
DayAvailability(avail, dow) ==
    LET idx == {i \in 1..Len(avail) : avail[i].day_of_week = dow}
    IN IF idx = {} THEN <<>>
       ELSE <<avail[CHOOSE i \in idx : \A j \in idx : i <= j]>>

BookingConflict(cur, slot_end, existing, duration) ==
    \E bk \in existing :
        /\ bk.scheduled_datetime # NULL
        /\ LET booking_start == bk.scheduled_datetime
               booking_end == booking_start +
                   (IF bk.estimated_duration_minutes \in {NULL, 0}
                    THEN duration ELSE bk.estimated_duration_minutes)
           IN ~(slot_end <= booking_start \/ cur >= booking_end)

\* a time-off test that looks at the start of the slot only
TimeOffConflictAtStart(cur, slot_end, offs) ==
    \E o \in offs : o.start_datetime <= cur /\ cur < o.end_datetime

TimeOffConflict(cur, slot_end, offs) ==
    \E o \in offs : ~(slot_end <= o.start_datetime \/ cur >= o.end_datetime)

\* a loop that stops one candidate early: "<" for "<=" in the while test
RECURSIVE GenerateSlotsStrict(_, _, _, _, _)
GenerateSlotsStrict(cur, end_datetime, existing, offs, duration) ==
    IF cur + duration < end_datetime
    THEN LET slot_end == cur + duration
             conflicts == \/ BookingConflict(cur, slot_end, existing, duration)
                          \/ TimeOffConflict(cur, slot_end, offs)
             rest == GenerateSlotsStrict(cur + SlotIncrement, end_datetime,
                                         existing, offs, duration)
         IN IF conflicts THEN rest
            ELSE <<[start |-> IsoFormat(cur), end |-> IsoFormat(slot_end)]>> \o rest
    ELSE <<>>

RECURSIVE GenerateSlots(_, _, _, _, _)
GenerateSlots(cur, end_datetime, existing, offs, duration) ==
    IF cur + duration <= end_datetime
    THEN LET slot_end == cur + duration
             conflicts == \/ BookingConflict(cur, slot_end, existing, duration)
                          \/ TimeOffConflict(cur, slot_end, offs)
             rest == GenerateSlots(cur + SlotIncrement, end_datetime,
                                   existing, offs, duration)
         IN IF conflicts THEN rest
            ELSE <<[start |-> IsoFormat(cur), end |-> IsoFormat(slot_end)]>> \o rest
    ELSE <<>>

\* availability: the rows already filtered on is_available; existing: the
\* provider's active bookings; offs: the provider's time-off rows
CalculateAvailableSlots(avail, existing, offs, preferred_date, duration) ==
    IF preferred_date = NULL THEN <<>>
    ELSE LET day == DayAvailability(avail, Weekday(preferred_date))
         IN IF day = <<>> THEN <<>>
            ELSE GenerateSlots(Combine(preferred_date, day[1].start_time),
                               Combine(preferred_date, day[1].end_time),
                               existing, offs, duration)

(***************************************************************************)
(* SchedulingAgent: fallback slots, response parsing, BaseAgent.execute    *)
(***************************************************************************)
Take(s, n) == SubSeq(s, 1, Min(n, Len(s)))

\* fallback slots that hand on every available slot, without the cut at 5
CreateFallbackSlotsUncapped(context) ==
    IF context.available_slots = <<>>
    THEN IF context.preferred_date # NULL /\ context.preferred_time_start # NULL
         THEN LET base_datetime ==
                      Combine(context.preferred_date, context.preferred_time_start)
              IN [i \in 1..3 |->
                    [start_datetime |-> IsoFormat(base_datetime + (i - 1) * 2 * 60),
                     end_datetime |-> IsoFormat(base_datetime + (i - 1) * 2 * 60 + 2 * 60),
                     confidence |-> 7 - (i - 1)]]
         ELSE <<>>
    ELSE [i \in 1..Len(context.available_slots) |->
            [start_datetime |-> context.available_slots[i].start,
             end_datetime |-> context.available_slots[i].end,
             confidence |-> FallbackConfidence]]

\* context: [preferred_date, preferred_time_start, available_slots]
CreateFallbackSlots(context) ==
    IF context.available_slots = <<>>
    THEN IF context.preferred_date # NULL /\ context.preferred_time_start # NULL
         THEN LET base_datetime ==
                      Combine(context.preferred_date, context.preferred_time_start)
              IN [i \in 1..3 |->
                    [start_datetime |-> IsoFormat(base_datetime + (i - 1) * 2 * 60),
                     end_datetime |-> IsoFormat(base_datetime + (i - 1) * 2 * 60 + 2 * 60),
                     confidence |-> 7 - (i - 1)]]
         ELSE <<>>
    ELSE LET first == Take(context.available_slots, FallbackSlotCap)
         IN [i \in 1..Len(first) |->
               [start_datetime |-> first[i].start,
                end_datetime |-> first[i].end,
                confidence |-> FallbackConfidence]]

\* The agent's reply text, by what the parser can make of it:
\*   json_object      a JSON object (payload: its suggested_slots, <<>> if absent)
\*   json_non_object  valid JSON that is no object and holds no {...} (a list, a number)
\*   text             anything json.loads rejects
SchedulingParseResponse(content, context) ==
    CASE content.type = "json_object" ->
             [is_dict |-> TRUE, suggested_slots |-> content.suggested_slots,
              fallback |-> FALSE]
      [] content.type = "json_non_object" ->
             [is_dict |-> FALSE, suggested_slots |-> <<>>, fallback |-> FALSE]
      [] OTHER ->
             [is_dict |-> TRUE, suggested_slots |-> CreateFallbackSlots(context),
              fallback |-> FALSE]

SchedulingFallbackResponse(context) ==
    [is_dict |-> TRUE, suggested_slots |-> CreateFallbackSlots(context),
     fallback |-> TRUE]

\* outcome of circuit_breaker.call_async(retry_with_backoff(_call_ai)) under
\* asyncio.wait_for: a reply that _call_ai parsed, or an exception
AgentFailures == {"raise", "timeout", "circuit_open"}

SchedulingExecute(context, outcome) ==
    IF outcome.kind = "reply"
    THEN SchedulingParseResponse(outcome.content, context)
    ELSE SchedulingFallbackResponse(context)

(***************************************************************************)
(* SchedulingService.get_available_slots on the current database           *)
(***************************************************************************)
ActiveStatuses == {"accepted", "scheduled", "in_progress"}

\* the availability query without its is_available filter
AllRows(p) == availability[p]

AvailableRows(p) ==
    LET IsAvail(a) == a.is_available IN SelectSeq(availability[p], IsAvail)

ExistingBookings(p) ==
    {bookings[i] : i \in {j \in 1..Len(bookings) :
                            /\ bookings[j].provider_id = p
                            /\ bookings[j].status \in ActiveStatuses}}

AvailableSlots(p, preferred_date, duration) ==
    CalculateAvailableSlots(AvailableRows(p), ExistingBookings(p), time_off[p],
                            preferred_date, duration)

SchedulingContext(p, preferred_date, preferred_time_start, duration) ==
    [preferred_date |-> preferred_date,
     preferred_time_start |-> preferred_time_start,
     available_slots |-> AvailableSlots(p, preferred_date, duration)]

GetAvailableSlots(p, preferred_date, preferred_time_start, duration, outcome) ==
    SchedulingExecute(
        SchedulingContext(p, preferred_date, preferred_time_start, duration),
        outcome)

(***************************************************************************)
(* Inputs the requests are drawn from                                      *)
(***************************************************************************)
Reasons == {"too far"}
Prices == {NULL, 0, 100}
NowStamp == 1
ScheduleTimes == {Combine(0, 540), Combine(0, 600)}
AgentTimes == {Combine(0, 600)}
AvailabilityInputs ==
    {<<>>,
     <<[day_of_week |-> 0, start_time |-> 540, end_time |-> 720,
        is_available |-> TRUE]>>}
\* who files the requests
Callers == {"c1", "c2", "p1", "p2", "adm"}
BookingCustomers == {"c1"}
BookingProviders == {"p1"}
ScheduleOwners == {"p1"}
TimeOffInputs ==
    {[start_datetime |-> Combine(0, 600), end_datetime |-> Combine(0, 720)]}

AgentSlot(t) ==
    [start_datetime |-> IsoFormat(t), end_datetime |-> IsoFormat(t + DefaultDuration),
     confidence |-> 9]

\* what the scheduling agent may come back with for a context
SchedulingOutcomes(context) ==
    [kind : AgentFailures, content : {[type |-> "none"]}]
    \cup [kind : {"reply"},
          content : {[type |-> "text"], [type |-> "json_non_object"]}]
    \cup [kind : {"reply"},
          content : [type : {"json_object"},
                     suggested_slots :
                         {<<>>, CreateFallbackSlots(context)}
                         \cup {<<AgentSlot(t)>> : t \in AgentTimes}]]

(***************************************************************************)
(* The booking endpoints: what a handler answers and writes, given the     *)
(* rows its SELECT returned (<<>> or <<row>>)                              *)
(***************************************************************************)
NoUpd == [f \in {} |-> NULL]
Outcome(result, upd) == [result |-> result, upd |-> upd]
Merge(row, upd) ==
    [f \in DOMAIN row |-> IF f \in DOMAIN upd THEN upd[f] ELSE row[f]]

NewBooking(customer, provider) ==
    [customer_id |-> customer, provider_id |-> provider, status |-> "requested",
     scheduled_datetime |-> NULL, estimated_duration_minutes |-> NULL,
     final_price |-> NULL, cancellation_reason |-> "none", cancelled_by |-> "none",
     cancelled_at |-> NULL, completed_at |-> NULL]

\* the provider endpoints select the booking by id and provider_id
ProviderLookupFails(u, rows) ==
    \/ ProviderProfileOf(u) = "none"
    \/ rows = <<>>
    \/ rows[1].provider_id # ProviderProfileOf(u)

\* schedule_booking, create_dispute: the nested access check
AccessDenied(u, row) ==
    /\ Role(u) # "admin"
    /\ CustomerProfileOf(u) # "none" /\ row.customer_id # CustomerProfileOf(u)
    /\ (ProviderProfileOf(u) = "none" \/ row.provider_id # ProviderProfileOf(u))

\* cancel_booking: the role the caller cancels as, "none" when not involved
CancelledByRole(u, row) ==
    IF Role(u) = "admin" THEN "admin"
    ELSE IF CustomerProfileOf(u) # "none" /\ row.customer_id = CustomerProfileOf(u)
         THEN "customer"
    ELSE IF ProviderProfileOf(u) # "none" /\ row.provider_id = ProviderProfileOf(u)
         THEN "provider"
    ELSE "none"

\* accept_booking without its status guard
AcceptOutcomeUnguarded(u, rows) ==
    IF Role(u) # "provider" THEN Outcome("forbidden", NoUpd)
    ELSE IF ProviderLookupFails(u, rows) THEN Outcome("not_found", NoUpd)
    ELSE Outcome("ok", [status |-> "accepted"])

AcceptOutcome(u, rows) ==
    IF Role(u) # "provider" THEN Outcome("forbidden", NoUpd)
    ELSE IF ProviderLookupFails(u, rows) THEN Outcome("not_found", NoUpd)
    ELSE IF rows[1].status # "requested" THEN Outcome("bad_request", NoUpd)
    ELSE Outcome("ok", [status |-> "accepted"])

RejectOutcome(u, rows, reason) ==
    IF Role(u) # "provider" THEN Outcome("forbidden", NoUpd)
    ELSE IF ProviderLookupFails(u, rows) THEN Outcome("not_found", NoUpd)
    ELSE IF rows[1].status # "requested" THEN Outcome("bad_request", NoUpd)
    ELSE Outcome("ok", [status |-> "cancelled", cancellation_reason |-> reason,
                        cancelled_by |-> "provider"])

BookingDuration(row) ==
    IF row.estimated_duration_minutes \in {NULL, 0}
    THEN DefaultDuration ELSE row.estimated_duration_minutes

\* [slot.get("start_datetime") for slot in slots.get("suggested_slots", [])]
AvailableTimes(agent_response) ==
    {agent_response.suggested_slots[i].start_datetime :
        i \in 1..Len(agent_response.suggested_slots)}

\* the outcome of schedule_booking also tells the available_times it compared
\* with ({} when it did not get that far)
ScheduleResult(result, upd, available_times) ==
    [result |-> result, upd |-> upd, available_times |-> available_times]

\* schedule_booking without the comparison with the suggested slots
ScheduleOutcomeUnvalidated(u, rows, scheduled_datetime, outcome) ==
    IF rows = <<>> \/ AccessDenied(u, rows[1]) \/ rows[1].status # "accepted"
    THEN [result |-> IF rows # <<>> /\ ~AccessDenied(u, rows[1])
                     THEN "bad_request" ELSE "not_found",
          upd |-> NoUpd, available_times |-> {}]
    ELSE LET slots == GetAvailableSlots(rows[1].provider_id,
                                        DateOf(scheduled_datetime), NULL,
                                        BookingDuration(rows[1]), outcome)
         IN IF ~slots.is_dict
            THEN [result |-> "server_error", upd |-> NoUpd, available_times |-> {}]
            ELSE [result |-> "ok",
                  upd |-> [status |-> "scheduled",
                           scheduled_datetime |-> scheduled_datetime],
                  available_times |-> AvailableTimes(slots)]

ScheduleOutcome(u, rows, scheduled_datetime, outcome) ==
    IF rows = <<>> THEN ScheduleResult("not_found", NoUpd, {})
    ELSE IF AccessDenied(u, rows[1]) THEN ScheduleResult("not_found", NoUpd, {})
    ELSE IF rows[1].status # "accepted" THEN ScheduleResult("bad_request", NoUpd, {})
    ELSE LET slots == GetAvailableSlots(rows[1].provider_id,
                                        DateOf(scheduled_datetime), NULL,
                                        BookingDuration(rows[1]), outcome)
         IN IF ~slots.is_dict THEN ScheduleResult("server_error", NoUpd, {})
            ELSE IF /\ AvailableTimes(slots) # {}
                    /\ IsoFormat(scheduled_datetime) \notin AvailableTimes(slots)
                 THEN ScheduleResult("bad_request", NoUpd, AvailableTimes(slots))
            ELSE ScheduleResult("ok", [status |-> "scheduled",
                                       scheduled_datetime |-> scheduled_datetime],
                                AvailableTimes(slots))

\* start_booking without its status guard
StartOutcomeUnguarded(u, rows) ==
    IF Role(u) # "provider" THEN Outcome("forbidden", NoUpd)
    ELSE IF ProviderLookupFails(u, rows) THEN Outcome("not_found", NoUpd)
    ELSE Outcome("ok", [status |-> "in_progress"])

StartOutcome(u, rows) ==
    IF Role(u) # "provider" THEN Outcome("forbidden", NoUpd)
    ELSE IF ProviderLookupFails(u, rows) THEN Outcome("not_found", NoUpd)
    ELSE IF rows[1].status # "scheduled" THEN Outcome("bad_request", NoUpd)
    ELSE Outcome("ok", [status |-> "in_progress"])

\* complete_booking without its status guard
CompleteOutcomeUnguarded(u, rows, final_price) ==
    IF Role(u) # "provider" THEN Outcome("forbidden", NoUpd)
    ELSE IF ProviderLookupFails(u, rows) THEN Outcome("not_found", NoUpd)
    ELSE Outcome("ok", [status |-> "completed", completed_at |-> NowStamp])

\* "if final_price:" leaves the column alone for None and for 0
CompleteOutcome(u, rows, final_price) ==
    IF Role(u) # "provider" THEN Outcome("forbidden", NoUpd)
    ELSE IF ProviderLookupFails(u, rows) THEN Outcome("not_found", NoUpd)
    ELSE IF rows[1].status # "in_progress" THEN Outcome("bad_request", NoUpd)
    ELSE Outcome("ok",
             IF final_price \in {NULL, 0}
             THEN [status |-> "completed", completed_at |-> NowStamp]
             ELSE [status |-> "completed", completed_at |-> NowStamp,
                   final_price |-> final_price])

CancelOutcome(u, rows, reason) ==
    IF rows = <<>> THEN Outcome("not_found", NoUpd)
    ELSE IF CancelledByRole(u, rows[1]) = "none" THEN Outcome("not_found", NoUpd)
    ELSE IF rows[1].status \in {"completed", "cancelled"}
         THEN Outcome("bad_request", NoUpd)
    ELSE Outcome("ok", [status |-> "cancelled", cancellation_reason |-> reason,
                        cancelled_by |-> CancelledByRole(u, rows[1]),
                        cancelled_at |-> NowStamp])

\* complete_booking: the two COUNT queries run on the database as it is before
\* the pending changes are flushed (the session is created with autoflush=False)
CompletedCount(p) ==
    Cardinality({i \in 1..Len(bookings) :
                    bookings[i].provider_id = p /\ bookings[i].status = "completed"})
TotalAccepted(p) ==
    Cardinality({i \in 1..Len(bookings) :
                    /\ bookings[i].provider_id = p
                    /\ bookings[i].status \in
                           {"accepted", "scheduled", "in_progress", "completed"}})
\* (completed / total) * 100 in a DECIMAL(5, 2) column: hundredths of a percent
Rate(completed, total) == (2 * 10000 * completed + total) \div (2 * total)

CompleteStats(p) ==
    [total_bookings |-> providers[p].total_bookings + 1,
     completion_rate |-> IF TotalAccepted(p) > 0
                         THEN Rate(CompletedCount(p), TotalAccepted(p))
                         ELSE providers[p].completion_rate]

HasDispute(b) == disputes[b] > 0

\* create_dispute without its check for an existing dispute
DisputeOutcomeUnchecked(u, rows, b) ==
    IF rows = <<>> THEN Outcome("not_found", NoUpd)
    ELSE IF AccessDenied(u, rows[1]) THEN Outcome("not_found", NoUpd)
    ELSE Outcome("ok", [status |-> "disputed"])

DisputeOutcome(u, rows, b) ==
    IF rows = <<>> THEN Outcome("not_found", NoUpd)
    ELSE IF AccessDenied(u, rows[1]) THEN Outcome("not_found", NoUpd)
    ELSE IF HasDispute(b) THEN Outcome("bad_request", NoUpd)
    ELSE Outcome("ok", [status |-> "disputed"])

(***************************************************************************)
(* Requests served one at a time                                           *)
(***************************************************************************)
BookingIds == 1..MaxBookings
Rows(b) == IF b \in 1..Len(bookings) THEN <<bookings[b]>> ELSE <<>>

\* the response, with the request it answers; for schedule also the datetime
\* asked for and the start texts the scheduling pipeline suggested
Response(op, u, b, result) ==
    [op |-> op, user |-> u, bid |-> b, result |-> result,
     dt |-> NULL, suggested |-> {}]
ScheduleResponse(u, b, out, scheduled_datetime) ==
    [op |-> "schedule", user |-> u, bid |-> b, result |-> out.result,
     dt |-> scheduled_datetime, suggested |-> out.available_times]

\* a commit that writes the changed columns to every row of the table
WriteEveryRow(b, out) ==
    bookings' = IF out.result = "ok"
                THEN [i \in 1..Len(bookings) |-> Merge(bookings[i], out.upd)]
                ELSE bookings

Write(b, out) ==
    bookings' = IF out.result = "ok"
                THEN [bookings EXCEPT ![b] = Merge(@, out.upd)]
                ELSE bookings

Requests == {1, 2}
IdleSession ==
    [pc |-> "idle", op |-> "none", user |-> "none", bid |-> 0, rows |-> <<>>,
     concurrent |-> FALSE, result |-> "none"]
IdleSessions == [r \in Requests |-> IdleSession]
NoSlotIn == [provider |-> "none", date |-> NULL, duration |-> 0]
NoMatchOut == [raised |-> FALSE, value |-> <<>>]
NoMatchIn ==
    [call |-> "none", service_found |-> FALSE, service_category |-> "none",
     providers |-> <<>>, outcome |-> [kind |-> "none"]]

\* CircuitBreaker(failure_threshold=5, timeout=60.0) as constructed
NewBreaker == [state |-> "closed", failure_count |-> 0, last_failure_time |-> NULL]

\* an agent after BaseAgent.__init__, with an empty prompt cache, at time 0;
\* streak and last_failed_at keep the history of its calls of the AI, last
\* describes its latest execute
NewAgent ==
    [circuit_breaker |-> NewBreaker,
     prompt_cache |-> {},
     now |-> 0,
     streak |-> 0,
     last_failed_at |-> NULL,
     last |-> [context |-> "none"]]

\* the tables of registration, empty
NoAccounts == [users |-> <<>>, customer_profiles |-> <<>>, provider_profiles |-> <<>>]

otherVars == <<sessions, slotIn, slotOut, matchIn, matchOut, agent,
               accounts, transactions>>

Init ==
    /\ bookings = <<>>
    /\ providers = [p \in Providers |-> [total_bookings |-> 0, completion_rate |-> 0]]
    /\ availability = [p \in Providers |-> <<>>]
    /\ time_off = [p \in Providers |-> {}]
    /\ disputes = [b \in BookingIds |-> 0]
    /\ resp = Response("none", "none", 0, "none")
    /\ sessions = IdleSessions
    /\ slotIn = NoSlotIn
    /\ slotOut = <<>>
    /\ matchIn = NoMatchIn
    /\ matchOut = NoMatchOut
    /\ agent = NewAgent
    /\ accounts = NoAccounts
    /\ transactions = <<>>

CreateBookingRequest(u, p) ==
    /\ Len(bookings) < MaxBookings
    /\ IF Role(u) # "customer"
       THEN /\ resp' = Response("create", u, 0, "forbidden")
            /\ UNCHANGED bookings
       ELSE /\ bookings' = Append(bookings, NewBooking(CustomerProfileOf(u), p))
            /\ resp' = Response("create", u, Len(bookings) + 1, "ok")
    /\ UNCHANGED <<providers, availability, time_off, disputes>>
    /\ UNCHANGED otherVars

AcceptBooking(u, b) ==
    LET out == AcceptOutcome(u, Rows(b))
    IN /\ Write(b, out)
       /\ resp' = Response("accept", u, b, out.result)
       /\ UNCHANGED <<providers, availability, time_off, disputes>>
       /\ UNCHANGED otherVars

RejectBooking(u, b, reason) ==
    LET out == RejectOutcome(u, Rows(b), reason)
    IN /\ Write(b, out)
       /\ resp' = Response("reject", u, b, out.result)
       /\ UNCHANGED <<providers, availability, time_off, disputes>>
       /\ UNCHANGED otherVars

\* the agent is called only once the lookup, the access check and the status
\* guard have passed
NoAgentCall == [kind |-> "none", content |-> [type |-> "none"]]
ScheduleAgentOutcomes(u, b, scheduled_datetime) ==
    IF /\ Rows(b) # <<>>
       /\ ~AccessDenied(u, bookings[b])
       /\ bookings[b].status = "accepted"
    THEN SchedulingOutcomes(
             SchedulingContext(bookings[b].provider_id, DateOf(scheduled_datetime),
                               NULL, BookingDuration(bookings[b])))
    ELSE {NoAgentCall}

ScheduleWith(u, b, scheduled_datetime, outcome) ==
    LET out == ScheduleOutcome(u, Rows(b), scheduled_datetime, outcome)
    IN /\ Write(b, out)
       /\ resp' = ScheduleResponse(u, b, out, scheduled_datetime)
       /\ UNCHANGED <<providers, availability, time_off, disputes>>
       /\ UNCHANGED otherVars

ScheduleBooking(u, b, scheduled_datetime) ==
    \E outcome \in ScheduleAgentOutcomes(u, b, scheduled_datetime) :
        ScheduleWith(u, b, scheduled_datetime, outcome)

StartBooking(u, b) ==
    LET out == StartOutcome(u, Rows(b))
    IN /\ Write(b, out)
       /\ resp' = Response("start", u, b, out.result)
       /\ UNCHANGED <<providers, availability, time_off, disputes>>
       /\ UNCHANGED otherVars

\* Line 433 calls total_accepted.scalar() a second time, on the result
\* object that the call of line 432 has consumed and closed.  Whether that
\* returns the count again or raises ResourceClosedError is the database
\* library's doing; when it raises, get_db rolls the transaction back.
CompleteBooking(u, b, final_price, closed_result_raises) ==
    LET done == CompleteOutcome(u, Rows(b), final_price)
        out == IF /\ done.result = "ok"
                  /\ closed_result_raises
                  /\ TotalAccepted(ProviderProfileOf(u)) > 0
               THEN Outcome("server_error", NoUpd)
               ELSE done
    IN /\ Write(b, out)
       /\ providers' = IF out.result = "ok"
                       THEN [providers EXCEPT
                                ![ProviderProfileOf(u)] = CompleteStats(ProviderProfileOf(u))]
                       ELSE providers
       /\ resp' = Response("complete", u, b, out.result)
       /\ UNCHANGED <<availability, time_off, disputes>>
       /\ UNCHANGED otherVars

CancelBooking(u, b, reason) ==
    LET out == CancelOutcome(u, Rows(b), reason)
    IN /\ Write(b, out)
       /\ resp' = Response("cancel", u, b, out.result)
       /\ UNCHANGED <<providers, availability, time_off, disputes>>
       /\ UNCHANGED otherVars

CreateDispute(u, b) ==
    LET out == DisputeOutcome(u, Rows(b), b)
    IN /\ Write(b, out)
       /\ disputes' = IF out.result = "ok"
                      THEN [disputes EXCEPT ![b] = @ + 1]
                      ELSE disputes
       /\ resp' = Response("dispute", u, b, out.result)
       /\ UNCHANGED <<providers, availability, time_off>>
       /\ UNCHANGED otherVars

\* set_availability: delete all rows of the provider, then insert the new ones
SetAvailability(u, rows) ==
    /\ IF Role(u) # "provider"
       THEN /\ resp' = Response("set_availability", u, 0, "forbidden")
            /\ UNCHANGED availability
       ELSE /\ availability' = [availability EXCEPT ![ProviderProfileOf(u)] = rows]
            /\ resp' = Response("set_availability", u, 0, "ok")
    /\ UNCHANGED <<bookings, providers, time_off, disputes>>
    /\ UNCHANGED otherVars

CreateTimeOff(u, off) ==
    /\ IF Role(u) # "provider"
       THEN /\ resp' = Response("create_time_off", u, 0, "forbidden")
            /\ UNCHANGED time_off
       ELSE /\ time_off' = [time_off EXCEPT ![ProviderProfileOf(u)] = @ \cup {off}]
            /\ resp' = Response("create_time_off", u, 0, "ok")
    /\ UNCHANGED <<bookings, providers, availability, disputes>>
    /\ UNCHANGED otherVars

DeleteTimeOff(u, off) ==
    /\ IF Role(u) # "provider"
       THEN /\ resp' = Response("delete_time_off", u, 0, "forbidden")
            /\ UNCHANGED time_off
       ELSE IF off \notin time_off[ProviderProfileOf(u)]
       THEN /\ resp' = Response("delete_time_off", u, 0, "not_found")
            /\ UNCHANGED time_off
       ELSE /\ time_off' = [time_off EXCEPT ![ProviderProfileOf(u)] = @ \ {off}]
            /\ resp' = Response("delete_time_off", u, 0, "ok")
    /\ UNCHANGED <<bookings, providers, availability, disputes>>
    /\ UNCHANGED otherVars

Next ==
    \/ \E u \in BookingCustomers, p \in BookingProviders : CreateBookingRequest(u, p)
    \/ \E u \in Callers, b \in BookingIds : AcceptBooking(u, b)
    \/ \E u \in Callers, b \in BookingIds, r \in Reasons : RejectBooking(u, b, r)
    \/ \E u \in Callers, b \in BookingIds, t \in ScheduleTimes : ScheduleBooking(u, b, t)
    \/ \E u \in Callers, b \in BookingIds : StartBooking(u, b)
    \/ \E u \in Callers, b \in BookingIds, fp \in Prices, raises \in BOOLEAN :
          CompleteBooking(u, b, fp, raises)
    \/ \E u \in Callers, b \in BookingIds, r \in Reasons : CancelBooking(u, b, r)
    \/ \E u \in Callers, b \in BookingIds : CreateDispute(u, b)
    \/ \E u \in ScheduleOwners, rows \in AvailabilityInputs : SetAvailability(u, rows)
    \/ \E u \in ScheduleOwners, off \in TimeOffInputs : CreateTimeOff(u, off)
    \/ \E u \in ScheduleOwners, off \in TimeOffInputs : DeleteTimeOff(u, off)

Spec == Init /\ [][Next]_vars

(***************************************************************************)
(* The booking state machine (requests served one at a time)               *)
(***************************************************************************)
TransitionOps == {"accept", "reject", "schedule", "start", "complete", "cancel"}

TransitionTable ==
    {<<"accept", "requested", "accepted">>,
     <<"reject", "requested", "cancelled">>,
     <<"schedule", "accepted", "scheduled">>,
     <<"start", "scheduled", "in_progress">>,
     <<"complete", "in_progress", "completed">>}
    \cup {<<"cancel", from, "cancelled">> :
              from \in {"requested", "accepted", "scheduled", "in_progress"}}

\* the guard column of the transition table
GuardHolds(op, status) ==
    CASE op \in {"accept", "reject"} -> status = "requested"
      [] op = "schedule" -> status = "accepted"
      [] op = "start" -> status = "scheduled"
      [] op = "complete" -> status = "in_progress"
      [] op = "cancel" -> status \notin {"completed", "cancelled"}

\* u is a party of the booking that op is open to
Party(op, u, row) ==
    \/ Role(u) = "provider" /\ row.provider_id = ProviderProfileOf(u)
    \/ /\ op \in {"schedule", "cancel"}
       /\ Role(u) = "customer" /\ row.customer_id = CustomerProfileOf(u)

\* C1: every status change made by accept, reject, schedule, start, complete
\* or cancel is an edge of the transition table (cancel only from requested,
\* accepted, scheduled or in_progress).
C1_TransitionsFollowTable ==
    [][\A b \in 1..Len(bookings) :
          (resp'.op \in TransitionOps /\ bookings'[b].status # bookings[b].status)
          => <<resp'.op, bookings[b].status, bookings'[b].status>> \in TransitionTable
      ]_vars

\* C2: a call of one of the six operations on a booking whose status fails the
\* operation's guard changes neither the booking nor the provider statistics
\* and does not succeed; made by a party of the booking it is answered with
\* bad request.  This includes schedule on an already scheduled booking.
C2_GuardFailureRejected ==
    [][(/\ resp'.op \in TransitionOps
        /\ resp'.bid \in 1..Len(bookings)
        /\ ~GuardHolds(resp'.op, bookings[resp'.bid].status))
       => /\ bookings' = bookings
          /\ providers' = providers
          /\ resp'.result # "ok"
          /\ Party(resp'.op, resp'.user, bookings[resp'.bid])
                => resp'.result = "bad_request"
      ]_vars

\* C2 witness: schedule was called by the booking's customer on a scheduled
\* booking, with the datetime it is scheduled at, and answered with bad request
C2_Witness ==
    /\ resp.op = "schedule" /\ resp.result = "bad_request"
    /\ resp.bid \in 1..Len(bookings)
    /\ resp.user = bookings[resp.bid].customer_id
    /\ bookings[resp.bid].status = "scheduled"
    /\ bookings[resp.bid].scheduled_datetime = resp.dt

\* the start texts of the slots the availability calculation yields now
ComputedStarts(p, preferred_date, duration) ==
    LET slots == AvailableSlots(p, preferred_date, duration)
    IN {slots[i].start : i \in 1..Len(slots)}

\* C4: schedule succeeds only for a datetime that is the start of a slot the
\* availability calculation yields at that moment for the booking's provider,
\* that date and the booking's duration.
C4_ScheduledOnlyIntoComputedSlot ==
    [][(resp'.op = "schedule" /\ resp'.result = "ok")
       => IsoFormat(resp'.dt) \in
              ComputedStarts(bookings[resp'.bid].provider_id, DateOf(resp'.dt),
                             BookingDuration(bookings[resp'.bid]))
      ]_vars

\* C5: when the scheduling pipeline returns a non-empty suggested-slot set and
\* the chosen datetime is no start of a suggested slot, schedule is answered
\* with bad request and the booking stays accepted without scheduled_datetime.
C5_UnsuggestedTimeRejected ==
    [][(/\ resp'.op = "schedule"
        /\ resp'.suggested # {}
        /\ IsoFormat(resp'.dt) \notin resp'.suggested)
       => /\ resp'.result = "bad_request"
          /\ bookings' = bookings
          /\ bookings'[resp'.bid].status = "accepted"
          /\ bookings'[resp'.bid].scheduled_datetime = NULL
      ]_vars

\* C5 witness: the pipeline suggested slots, the datetime asked for is none of
\* their starts, and schedule was refused
C5_Witness ==
    /\ resp.op = "schedule" /\ resp.result = "bad_request"
    /\ resp.suggested # {}
    /\ IsoFormat(resp.dt) \notin resp.suggested
    /\ bookings[resp.bid].status = "accepted"

\* C6: a booking that is in_progress or completed has scheduled_datetime set.
C6_StartedHasSchedule ==
    \A b \in 1..Len(bookings) :
        bookings[b].status \in {"in_progress", "completed"}
        => bookings[b].scheduled_datetime # NULL

\* C6 witness: the provider has started a booking
C6_Witness ==
    /\ resp.op = "start" /\ resp.result = "ok"
    /\ bookings[resp.bid].status = "in_progress"
    /\ bookings[resp.bid].scheduled_datetime \in ScheduleTimes

(***************************************************************************)
(* Two requests in flight.  A handler first SELECTs the booking into its   *)
(* own session (get_db gives every request a session of its own), then     *)
(* tests the guard on what it read, and commit() flushes an UPDATE of the  *)
(* columns it changed, addressed by primary key alone: bookings.py has no  *)
(* with_for_update and the Booking mapper no version_id_col.               *)
(***************************************************************************)
ConcOps == {"accept", "reject", "start", "cancel"}

\* the bookings the two requests find
ConcBookings ==
    {[NewBooking("c1", "p1") EXCEPT !.status = "requested"],
     [NewBooking("c1", "p1") EXCEPT !.status = "scheduled",
                                    !.scheduled_datetime = Combine(0, 540)]}

TransitionOutcome(op, u, rows, reason) ==
    CASE op = "accept" -> AcceptOutcome(u, rows)
      [] op = "reject" -> RejectOutcome(u, rows, reason)
      [] op = "start"  -> StartOutcome(u, rows)
      [] op = "cancel" -> CancelOutcome(u, rows, reason)

InitConc ==
    /\ bookings \in {<<row>> : row \in ConcBookings}
    /\ providers = [p \in Providers |-> [total_bookings |-> 0, completion_rate |-> 0]]
    /\ availability = [p \in Providers |-> <<>>]
    /\ time_off = [p \in Providers |-> {}]
    /\ disputes = [b \in BookingIds |-> 0]
    /\ resp = Response("none", "none", 0, "none")
    /\ sessions = IdleSessions
    /\ slotIn = NoSlotIn
    /\ slotOut = <<>>
    /\ matchIn = NoMatchIn
    /\ matchOut = NoMatchOut
    /\ agent = NewAgent
    /\ accounts = NoAccounts
    /\ transactions = <<>>

\* the handler up to and including its SELECT of the booking
BeginTransition(r, op, u, b) ==
    /\ sessions[r].pc = "idle"
    /\ sessions' = [sessions EXCEPT ![r] =
                       [pc |-> "read", op |-> op, user |-> u, bid |-> b,
                        rows |-> Rows(b),
                        concurrent |-> \E q \in Requests \ {r} :
                                          sessions[q].pc = "read" /\ sessions[q].bid = b,
                        result |-> "none"]]
    /\ UNCHANGED <<dbVars, resp, slotIn, slotOut, matchIn, matchOut, agent, accounts, transactions>>

\* the rest of the handler: guard, assignments, commit
FinishTransition(r, reason) ==
    /\ sessions[r].pc = "read"
    /\ LET ses == sessions[r]
           out == TransitionOutcome(ses.op, ses.user, ses.rows, reason)
       IN /\ Write(ses.bid, out)
          /\ sessions' = [sessions EXCEPT ![r].pc = "done", ![r].result = out.result]
          /\ resp' = Response(ses.op, ses.user, ses.bid, out.result)
    /\ UNCHANGED <<providers, availability, time_off, disputes,
                   slotIn, slotOut, matchIn, matchOut, agent, accounts, transactions>>

NextConc ==
    \/ \E r \in Requests, op \in ConcOps, u \in Callers, b \in BookingIds :
          BeginTransition(r, op, u, b)
    \/ \E r \in Requests, reason \in Reasons : FinishTransition(r, reason)

SpecConc == InitConc /\ [][NextConc]_vars

\* the pairs of operations the claim calls mutually exclusive
ExclusivePairs == {{"accept", "reject"}, {"start", "cancel"}}

\* r and q ran concurrently on one booking: one read while the other was
\* between its read and its write
Concurrent(r, q) ==
    /\ r # q
    /\ sessions[r].pc = "done" /\ sessions[q].pc = "done"
    /\ sessions[r].bid = sessions[q].bid
    /\ sessions[r].concurrent \/ sessions[q].concurrent

\* C3: of two requests that ran concurrently on one booking, with operations
\* whose guards are mutually exclusive, at most one succeeded.
C3_ExclusiveTransitionsSerialized ==
    \A r \in Requests, q \in Requests :
        (Concurrent(r, q) /\ {sessions[r].op, sessions[q].op} \in ExclusivePairs)
        => ~(sessions[r].result = "ok" /\ sessions[q].result = "ok")

(***************************************************************************)
(* The availability calculation over varied schedules.  The bookings are   *)
(* those the provider has when the calculation is asked for; the provider  *)
(* edits the weekly availability and the time-off in between.              *)
(***************************************************************************)
SlotDates == {0, 1}
SlotDurations == {60, 90, 600}

AvailabilityRow(dow, start_time, end_time, is_available) ==
    [day_of_week |-> dow, start_time |-> start_time, end_time |-> end_time,
     is_available |-> is_available]

\* 09:00-18:00; a closed day; a closed row before an open one for the same
\* weekday; another weekday; a row that ends before it starts
SlotAvailabilityInputs ==
    {<<>>,
     <<AvailabilityRow(0, 540, 1080, TRUE)>>,
     <<AvailabilityRow(0, 540, 1080, FALSE)>>,
     <<AvailabilityRow(0, 540, 720, FALSE), AvailabilityRow(0, 600, 780, TRUE)>>,
     <<AvailabilityRow(1, 540, 720, TRUE)>>,
     <<AvailabilityRow(0, 720, 540, TRUE)>>}

SlotTimeOffInputs ==
    {[start_datetime |-> Combine(0, 600), end_datetime |-> Combine(0, 720)],
     [start_datetime |-> Combine(0, 1020), end_datetime |-> Combine(1, 600)]}

ScheduledBooking(provider, status, scheduled_datetime, estimated_duration_minutes) ==
    [NewBooking("c1", provider) EXCEPT
        !.status = status,
        !.scheduled_datetime = scheduled_datetime,
        !.estimated_duration_minutes = estimated_duration_minutes]

SlotBookings ==
    {ScheduledBooking("p1", "scheduled", Combine(0, 600), NULL),
     ScheduledBooking("p1", "scheduled", Combine(0, 600), 90),
     ScheduledBooking("p1", "in_progress", Combine(0, 570), NULL),
     ScheduledBooking("p1", "scheduled", Combine(0, 615), NULL),
     ScheduledBooking("p1", "accepted", NULL, NULL),
     ScheduledBooking("p1", "completed", Combine(0, 600), NULL),
     ScheduledBooking("p1", "cancelled", Combine(0, 600), NULL),
     ScheduledBooking("p2", "scheduled", Combine(0, 540), NULL)}

InitSlots ==
    /\ bookings \in UNION {[1..k -> SlotBookings] : k \in 0..MaxSlotBookings}
    /\ providers = [p \in Providers |-> [total_bookings |-> 0, completion_rate |-> 0]]
    /\ availability = [p \in Providers |-> <<>>]
    /\ time_off = [p \in Providers |-> {}]
    /\ disputes = [b \in BookingIds |-> 0]
    /\ resp = Response("none", "none", 0, "none")
    /\ sessions = IdleSessions
    /\ slotIn = NoSlotIn
    /\ slotOut = <<>>
    /\ matchIn = NoMatchIn
    /\ matchOut = NoMatchOut
    /\ agent = NewAgent
    /\ accounts = NoAccounts
    /\ transactions = <<>>

\* get_available_slots up to its call of the agent: the three queries and
\* _calculate_available_slots
ComputeSlots(p, preferred_date, duration) ==
    /\ slotIn' = [provider |-> p, date |-> preferred_date, duration |-> duration]
    /\ slotOut' = AvailableSlots(p, preferred_date, duration)
    /\ resp' = Response("slots", "none", 0, "ok")
    /\ UNCHANGED <<dbVars, sessions, matchIn, matchOut, agent, accounts, transactions>>

NextSlots ==
    \/ \E u \in ScheduleOwners, rows \in SlotAvailabilityInputs : SetAvailability(u, rows)
    \/ \E u \in ScheduleOwners, off \in SlotTimeOffInputs : CreateTimeOff(u, off)
    \/ \E u \in ScheduleOwners, off \in SlotTimeOffInputs : DeleteTimeOff(u, off)
    \/ \E p \in BookingProviders, d \in SlotDates, duration \in SlotDurations :
          ComputeSlots(p, d, duration)

SpecSlots == InitSlots /\ [][NextSlots]_vars

\* slotOut answers the calculation just made: every other action of
\* SpecSlots sets another resp.op, so the schedule is as the calculation saw it
SlotsComputed == resp.op = "slots"

\* two intervals overlap unless one ends at or before the other starts
Overlap(s1, e1, s2, e2) == ~(e1 <= s2 \/ e2 <= s1)

\* the provider's rows for the weekday that are marked available
OpenRows(p, d) ==
    {i \in 1..Len(availability[p]) :
        /\ availability[p][i].day_of_week = Weekday(d)
        /\ availability[p][i].is_available}

ActiveBookings(p) ==
    {b \in 1..Len(bookings) :
        /\ bookings[b].provider_id = p
        /\ bookings[b].status \in ActiveStatuses
        /\ bookings[b].scheduled_datetime # NULL}

\* a booking without an estimated duration is taken to last as long as the
\* duration asked for
BookingEnd(b, duration) ==
    bookings[b].scheduled_datetime +
        (IF bookings[b].estimated_duration_minutes = NULL
         THEN duration ELSE bookings[b].estimated_duration_minutes)

Free(p, s, e, duration) ==
    /\ \A b \in ActiveBookings(p) :
          ~Overlap(s, e, bookings[b].scheduled_datetime, BookingEnd(b, duration))
    /\ \A o \in time_off[p] : ~Overlap(s, e, o.start_datetime, o.end_datetime)

OpenInterval(p, d) ==
    LET r == CHOOSE i \in OpenRows(p, d) : \A j \in OpenRows(p, d) : i <= j
    IN [start |-> Combine(d, availability[p][r].start_time),
        end |-> Combine(d, availability[p][r].end_time)]

Candidates(p, d, duration) ==
    LET open == OpenInterval(p, d)
    IN {s \in open.start..open.end :
           /\ (s - open.start) % SlotIncrement = 0
           /\ s + duration <= open.end
           /\ Free(p, s, s + duration, duration)}

\* the example of the claim: open 09:00-18:00, one booking 10:00-11:00,
\* no time-off, 60 minutes asked for
ExampleDay ==
    /\ slotIn.duration = 60
    /\ OpenRows(slotIn.provider, slotIn.date) # {}
    /\ OpenInterval(slotIn.provider, slotIn.date) =
          [start |-> Combine(slotIn.date, 540), end |-> Combine(slotIn.date, 1080)]
    /\ time_off[slotIn.provider] = {}
    /\ \E b \in ActiveBookings(slotIn.provider) :
          /\ ActiveBookings(slotIn.provider) = {b}
          /\ bookings[b].scheduled_datetime = Combine(slotIn.date, 600)
          /\ BookingEnd(b, 60) = Combine(slotIn.date, 660)

SlotStarts == {FromIsoFormat(slotOut[i].start) : i \in 1..Len(slotOut)}

\* C8: with an open interval, the calculation returns exactly the candidates
\* [s, s+D) with s = open start + k*30 and s+D <= open end that conflict with
\* no active booking and no time-off, in strictly increasing order; on the
\* example day 09:00 and 11:00 are returned and 10:00 is not; a duration longer
\* than the open interval gives the empty list, without an error.
C8_ExactlyTheFreeCandidates ==
    (SlotsComputed /\ OpenRows(slotIn.provider, slotIn.date) # {}) =>
        LET p == slotIn.provider
            open == OpenInterval(p, slotIn.date)
        IN /\ SlotStarts = Candidates(p, slotIn.date, slotIn.duration)
           /\ \A i \in 1..Len(slotOut) :
                 FromIsoFormat(slotOut[i].end) =
                     FromIsoFormat(slotOut[i].start) + slotIn.duration
           /\ \A i \in 1..Len(slotOut), j \in 1..Len(slotOut) :
                 i < j => FromIsoFormat(slotOut[i].start) < FromIsoFormat(slotOut[j].start)
           /\ ExampleDay =>
                 /\ Combine(slotIn.date, 540) \in SlotStarts
                 /\ Combine(slotIn.date, 660) \in SlotStarts
                 /\ Combine(slotIn.date, 600) \notin SlotStarts
           /\ slotIn.duration > open.end - open.start =>
                 slotOut = <<>> /\ resp.result = "ok"

\* C8 witness: the calculation was made on the example day
C8_Witness == SlotsComputed /\ ExampleDay /\ Len(slotOut) > 2

ProviderData(id, rating, distance_km, completion_rate) ==
    [id |-> id, rating |-> rating, distance_km |-> distance_km,
     completion_rate |-> completion_rate]

\* a scorer that gives the 20-point bonus up to 10 km
FallbackScoreWideBonus(provider) ==
    LET raw == 50000 + (provider.rating - 300) * 100
               + (IF provider.distance_km < 1000 THEN 20000 ELSE 0)
               + (provider.completion_rate - 8000) * 2
        clamped == Max(0, Min(100000, raw))
    IN (clamped + 5) \div 10

\* score = 50 + (rating - 3.0) * 10 + (20 | 10 | 0) + (completion_rate - 80) * 0.2,
\* computed in thousandths, clamped to 0..100 and rounded to two places
FallbackScore(provider) ==
    LET raw == 50000 + (provider.rating - 300) * 100
               + (IF provider.distance_km < 500 THEN 20000
                  ELSE IF provider.distance_km < 1000 THEN 10000 ELSE 0)
               + (provider.completion_rate - 8000) * 2
        clamped == Max(0, Min(100000, raw))
    IN (clamped + 5) \div 10

\* list.sort(key=match_score, reverse=True): descending and stable
InsertByScore(m, sorted) ==
    LET k == Cardinality({i \in 1..Len(sorted) : sorted[i].match_score >= m.match_score})
    IN SubSeq(sorted, 1, k) \o <<m>> \o SubSeq(sorted, k + 1, Len(sorted))

RECURSIVE SortByScore(_)
SortByScore(matches) ==
    IF matches = <<>> THEN <<>>
    ELSE InsertByScore(matches[Len(matches)],
                       SortByScore(SubSeq(matches, 1, Len(matches) - 1)))

CreateFallbackMatchesUnsorted(context) ==
    LET scored == [i \in 1..Len(context.available_providers) |->
                      [provider_id |-> context.available_providers[i].id,
                       match_score |-> FallbackScore(context.available_providers[i])]]
    IN Take(scored, FallbackMatchCap)

CreateFallbackMatches(context) ==
    LET scored == [i \in 1..Len(context.available_providers) |->
                      [provider_id |-> context.available_providers[i].id,
                       match_score |-> FallbackScore(context.available_providers[i])]]
    IN Take(SortByScore(scored), FallbackMatchCap)

\* _parse_response answering unparseable text with the summary alone
MatchingParseResponseNoMatches(content, context) ==
    CASE content.type = "json_object" ->
             [is_dict |-> TRUE, matches |-> content.matches, fallback |-> FALSE]
      [] content.type = "json_non_object" ->
             [is_dict |-> FALSE, matches |-> <<>>, fallback |-> FALSE]
      [] OTHER ->
             [is_dict |-> TRUE, matches |-> <<>>, fallback |-> FALSE]

\* The reply text by what MatchingAgent._parse_response makes of it, as for
\* the scheduling agent; a json_object carries its "matches" (<<>> if absent)
MatchingParseResponse(content, context) ==
    CASE content.type = "json_object" ->
             [is_dict |-> TRUE, matches |-> content.matches, fallback |-> FALSE]
      [] content.type = "json_non_object" ->
             [is_dict |-> FALSE, matches |-> <<>>, fallback |-> FALSE]
      [] OTHER ->
             [is_dict |-> TRUE, matches |-> CreateFallbackMatches(context),
              fallback |-> FALSE]

MatchingFallbackResponse(context) ==
    [is_dict |-> TRUE, matches |-> CreateFallbackMatches(context), fallback |-> TRUE]

\* json.dumps(context) in _build_user_prompt, before the try block of
\* execute: a uuid.UUID in the context is a TypeError
JsonSerialisable(context) == context.service_category # "uuid"

Raised == [raised |-> TRUE]
Returned(value) == [raised |-> FALSE, value |-> value]

MatchingExecute(context, outcome) ==
    IF ~JsonSerialisable(context) THEN Raised
    ELSE IF outcome.kind = "reply"
    THEN Returned(MatchingParseResponse(outcome.content, context))
    ELSE Returned(MatchingFallbackResponse(context))

\* the context find_matching_providers builds: service.category_id is a
\* UUID(as_uuid=True) column and goes into the context as it is
MatchingContext(service_category, providers_data) ==
    [service_category |-> service_category, available_providers |-> providers_data]

\* for match in matches: keep those whose provider_id is one of providers_data
EnrichMatches(matches, providers_data) ==
    LET Known(m) == \E i \in 1..Len(providers_data) : providers_data[i].id = m.provider_id
    IN SelectSeq(matches, Known)

FindMatchingProviders(service_found, providers_data, outcome) ==
    IF ~service_found THEN Returned(<<>>)
    ELSE IF providers_data = <<>> THEN Returned(<<>>)
    ELSE LET agent_response ==
                 MatchingExecute(MatchingContext("uuid", providers_data), outcome)
         IN IF agent_response.raised THEN Raised
            ELSE IF ~agent_response.value.is_dict THEN Raised
            ELSE Returned(Take(SortByScore(EnrichMatches(agent_response.value.matches,
                                                         providers_data)),
                               MatchCap))

\* the approved providers of the category within the radius
CandidatePool ==
    {ProviderData("pA", 450, 150, 9000),
     ProviderData("pB", 300, 2000, 7000),
     ProviderData("pC", 500, 200, 10000),
     ProviderData("pD", 300, 700, 3333),
     ProviderData("pE", 0, 3000, 0),
     ProviderData("pF", 450, 400, 9000),
     ProviderData("pG", 400, 999, 8000)}

\* ORDER BY distance_km
RECURSIVE OrderByDistance(_)
OrderByDistance(rows) ==
    IF rows = {} THEN <<>>
    ELSE LET nearest == CHOOSE r \in rows : \A q \in rows : r.distance_km <= q.distance_km
         IN <<nearest>> \o OrderByDistance(rows \ {nearest})

\* what the candidate query returns
CandidateLists ==
    {OrderByDistance(rows) : rows \in {S \in SUBSET CandidatePool :
                                          Cardinality(S) <= MaxCandidates}}

AgentMatch(id, score) == [provider_id |-> id, match_score |-> score]

MatchingOutcomes ==
    [kind : AgentFailures, content : {[type |-> "none"]}]
    \cup [kind : {"reply"},
          content : {[type |-> "text"], [type |-> "json_non_object"]}]
    \cup [kind : {"reply"},
          content : [type : {"json_object"},
                     matches : {<<>>,
                                <<AgentMatch("pA", 9000)>>,
                                <<AgentMatch("pB", 4000), AgentMatch("pA", 9000)>>,
                                <<AgentMatch("pZ", 9900)>>}]]

InitMatch ==
    /\ bookings = <<>>
    /\ providers = [p \in Providers |-> [total_bookings |-> 0, completion_rate |-> 0]]
    /\ availability = [p \in Providers |-> <<>>]
    /\ time_off = [p \in Providers |-> {}]
    /\ disputes = [b \in BookingIds |-> 0]
    /\ resp = Response("none", "none", 0, "none")
    /\ sessions = IdleSessions
    /\ slotIn = NoSlotIn
    /\ slotOut = <<>>
    /\ matchIn = NoMatchIn
    /\ matchOut = NoMatchOut
    /\ agent = NewAgent
    /\ accounts = NoAccounts
    /\ transactions = <<>>

\* a call of MatchingService.find_matching_providers
FindMatching(service_found, providers_data, outcome) ==
    /\ matchIn' = [call |-> "find_matching_providers", service_found |-> service_found,
                   service_category |-> "uuid",
                   providers |-> providers_data, outcome |-> outcome]
    /\ matchOut' = FindMatchingProviders(service_found, providers_data, outcome)
    /\ resp' = Response("match", "none", 0, IF matchOut'.raised THEN "raised" ELSE "ok")
    /\ UNCHANGED <<dbVars, sessions, slotIn, slotOut, agent, accounts, transactions>>

\* a call of MatchingAgent.execute with a context of the caller's making
ExecuteMatchingAgent(service_category, providers_data, outcome) ==
    /\ matchIn' = [call |-> "execute", service_found |-> TRUE,
                   service_category |-> service_category,
                   providers |-> providers_data, outcome |-> outcome]
    /\ matchOut' = MatchingExecute(MatchingContext(service_category, providers_data),
                                   outcome)
    /\ resp' = Response("execute", "none", 0, IF matchOut'.raised THEN "raised" ELSE "ok")
    /\ UNCHANGED <<dbVars, sessions, slotIn, slotOut, agent, accounts, transactions>>

\* one call per behaviour: a call depends on nothing an earlier call left
NextMatch ==
    \/ /\ matchIn = NoMatchIn
       /\ \E service_found \in BOOLEAN, cands \in CandidateLists,
             outcome \in MatchingOutcomes :
             FindMatching(service_found, cands, outcome)
    \/ /\ matchIn = NoMatchIn
       /\ \E category \in {"uuid", "str"}, cands \in CandidateLists,
             outcome \in MatchingOutcomes :
             ExecuteMatchingAgent(category, cands, outcome)

SpecMatch == InitMatch /\ [][NextMatch]_vars

\* the agent call fails: it raises, times out, meets the open circuit, or
\* replies with something that is not the JSON object asked for
AgentCallFails(outcome) ==
    \/ outcome.kind \in AgentFailures
    \/ outcome.kind = "reply" /\ outcome.content.type \in {"text", "json_non_object"}

\* the ranking of the fallback scorer for the candidates
FallbackRanking(providers_data) ==
    CreateFallbackMatches(MatchingContext("str", providers_data))

\* C10: with at least one candidate and a failing agent call,
\* find_matching_providers does not raise and returns the non-empty ranking
\* of the fallback scorer.
C10_AgentFailureFallsBack ==
    (/\ matchIn.call = "find_matching_providers"
     /\ matchIn.service_found
     /\ matchIn.providers # <<>>
     /\ AgentCallFails(matchIn.outcome))
    => /\ ~matchOut.raised
       /\ matchOut.value # <<>>
       /\ matchOut.value = FallbackRanking(matchIn.providers)

\* the agent's response was made by its fallback computation: the call
\* failed, or the reply was text that json.loads rejects
FallbackProduced(outcome) ==
    \/ outcome.kind \in AgentFailures
    \/ outcome.kind = "reply" /\ outcome.content.type = "text"

\* MatchingAgent.execute returned the fallback computation's matches
MatchingFellBack ==
    /\ matchIn.call = "execute"
    /\ ~matchOut.raised
    /\ FallbackProduced(matchIn.outcome)

Candidate(id) ==
    CHOOSE i \in 1..Len(matchIn.providers) : matchIn.providers[i].id = id

\* 50 + (rating - 3.0)*10 + bonus + (completion_rate - 80)*0.2 clamped to
\* [0, 100], in thousandths (rating, distance and rate are in hundredths)
DistanceBonus(distance_km) ==
    CASE distance_km < 500 -> 20
      [] distance_km >= 500 /\ distance_km < 1000 -> 10
      [] OTHER -> 0

ClaimedScore(c) ==
    LET score == 50 * 1000 + (c.rating - 3 * 100) * 10 * 10
                 + DistanceBonus(c.distance_km) * 1000
                 + ((c.completion_rate - 80 * 100) * 2)
    IN IF score < 0 THEN 0 ELSE IF score > 100 * 1000 THEN 100 * 1000 ELSE score

\* thousandths to the nearest hundredth
NearestHundredth(x) ==
    IF x % 10 < 5 THEN x \div 10 ELSE x \div 10 + 1

\* C11 as stated: every fallback match score equals the clamped formula value
\* itself (scores are in hundredths, the formula value in thousandths).
C11_FallbackScoreExact ==
    MatchingFellBack =>
        \A i \in 1..Len(matchOut.value.matches) :
            LET m == matchOut.value.matches[i]
            IN m.match_score * 10 = ClaimedScore(matchIn.providers[Candidate(m.provider_id)])

\* C11 amended: every fallback match score equals the clamped formula value
\* rounded to two decimal places; for rating 4.5, distance 1.5 km and
\* completion rate 90 it is 87.0; no fallback score is below 0 or above 100.
C11_FallbackScoreRounded ==
    MatchingFellBack =>
        \A i \in 1..Len(matchOut.value.matches) :
            LET m == matchOut.value.matches[i]
                c == matchIn.providers[Candidate(m.provider_id)]
            IN /\ \E k \in 1..Len(matchIn.providers) : matchIn.providers[k].id = m.provider_id
               /\ m.match_score = NearestHundredth(ClaimedScore(c))
               /\ m.match_score >= 0 /\ m.match_score <= 100 * 100
               /\ (c.rating = 450 /\ c.distance_km = 150 /\ c.completion_rate = 9000)
                     => m.match_score = 8700

\* C11 witness: the fallback scored the 4.5 / 1.5 km / 90 candidate and one
\* whose formula value has a third decimal
C11_Witness ==
    /\ MatchingFellBack
    /\ \E i \in 1..Len(matchOut.value.matches) :
          /\ matchOut.value.matches[i].provider_id = "pA"
          /\ matchOut.value.matches[i].match_score = 8700
    /\ \E i \in 1..Len(matchOut.value.matches) :
          matchOut.value.matches[i].provider_id = "pD"

\* position of a provider in the returned matches, 0 if it was left out
Rank(id) ==
    LET at == {i \in 1..Len(matchOut.value.matches) :
                  matchOut.value.matches[i].provider_id = id}
    IN IF at = {} THEN 0 ELSE CHOOSE i \in at : TRUE

Offered(id) ==
    \E k \in 1..Len(matchIn.providers) : matchIn.providers[k].id = id

\* C12: the fallback scorer returns the candidates by non-increasing score,
\* cut to the 5 highest scoring ones (each candidate at most once, every
\* candidate left out scoring no more than any returned one); the candidate
\* with rating 5.0, 2 km, completion rate 100 is ranked above the candidate
\* with rating 3.0, 20 km, completion rate 70.
C12_FallbackRankedTopFive ==
    MatchingFellBack =>
        LET ms == matchOut.value.matches
        IN /\ Len(ms) = Min(5, Len(matchIn.providers))
           /\ \A i \in 1..Len(ms) : Offered(ms[i].provider_id)
           /\ \A i, j \in 1..Len(ms) :
                 /\ i < j => ms[i].match_score >= ms[j].match_score
                 /\ i # j => ms[i].provider_id # ms[j].provider_id
           /\ \A k \in 1..Len(matchIn.providers) :
                 Rank(matchIn.providers[k].id) = 0 =>
                     \A i \in 1..Len(ms) :
                         ms[i].match_score >= FallbackScore(matchIn.providers[k])
           /\ (Offered("pC") /\ Offered("pB")) =>
                 /\ Rank("pC") > 0
                 /\ Rank("pB") > 0 => Rank("pC") < Rank("pB")

\* C12 witness: six candidates were scored, one was cut, and the two named
\* candidates were both returned, the nearer and better one first
C12_Witness ==
    /\ MatchingFellBack
    /\ Len(matchIn.providers) = 6
    /\ Len(matchOut.value.matches) = 5
    /\ Rank("pC") = 1
    /\ Rank("pB") > 1

\* C13: whenever the agent's result comes from its fallback computation (the
\* call raised, timed out, was refused by the open circuit, or replied with
\* text that does not parse), the response carries the fallback flag.
C13_FallbackFlagged ==
    MatchingFellBack => matchOut.value.fallback

(***************************************************************************)
(* Both pipelines side by side: the scheduling pipeline on the schedules   *)
(* the providers set, the matching pipeline on a candidate list. The two   *)
(* share no state, so a behaviour runs one or the other.                   *)
(***************************************************************************)
PreferredStarts == {NULL, 600}

\* SchedulingService.get_available_slots, agent call included
SuggestSlots(p, preferred_date, preferred_time_start, duration, outcome) ==
    /\ slotIn' = [provider |-> p, date |-> preferred_date, duration |-> duration,
                  preferred_time_start |-> preferred_time_start, outcome |-> outcome]
    /\ slotOut' = GetAvailableSlots(p, preferred_date, preferred_time_start,
                                    duration, outcome)
    /\ resp' = Response("suggest", "none", 0, "ok")
    /\ UNCHANGED <<dbVars, sessions, matchIn, matchOut, agent, accounts, transactions>>

NextPipelines ==
    \/ /\ matchIn = NoMatchIn
       /\ \E u \in ScheduleOwners, rows \in SlotAvailabilityInputs :
             SetAvailability(u, rows)
    \/ /\ matchIn = NoMatchIn
       /\ \E p \in BookingProviders, d \in SlotDates, t \in PreferredStarts,
             duration \in SlotDurations :
             \E outcome \in SchedulingOutcomes(SchedulingContext(p, d, t, duration)) :
                 SuggestSlots(p, d, t, duration, outcome)
    \/ /\ matchIn = NoMatchIn /\ resp.op = "none"
       /\ \E service_found \in BOOLEAN, cands \in CandidateLists,
             outcome \in MatchingOutcomes :
             FindMatching(service_found, cands, outcome)
    \/ /\ matchIn = NoMatchIn /\ resp.op = "none"
       /\ \E category \in {"uuid", "str"}, cands \in CandidateLists,
             outcome \in MatchingOutcomes :
             ExecuteMatchingAgent(category, cands, outcome)

SpecPipelines == Init /\ [][NextPipelines]_vars

UnparseableReply(outcome) ==
    outcome.kind = "reply" /\ outcome.content.type = "text"

FailedCalls == [kind : AgentFailures, content : {[type |-> "none"]}]

\* the matching call just made, had the agent call failed instead
MatchingAfter(failed) ==
    IF matchIn.call = "find_matching_providers"
    THEN FindMatchingProviders(matchIn.service_found, matchIn.providers, failed)
    ELSE MatchingExecute(MatchingContext(matchIn.service_category, matchIn.providers),
                         failed)

MatchesOf(out) ==
    IF out.raised THEN <<"raised">>
    ELSE IF matchIn.call = "find_matching_providers" THEN <<"returned", out.value>>
    ELSE <<"returned", out.value.matches>>

\* C14: for the same context, the matches the matching pipeline (and the
\* matching agent under it) gives after an unparseable reply equal the
\* matches it gives after a call that raised or timed out, and the
\* scheduling pipeline's suggested slots after an unparseable reply equal
\* those after a failed call.
C14_FallbackPathsAgree ==
    /\ (matchIn.call # "none" /\ UnparseableReply(matchIn.outcome)) =>
           \A failed \in FailedCalls :
               MatchesOf(matchOut) = MatchesOf(MatchingAfter(failed))
    /\ (resp.op = "suggest" /\ UnparseableReply(slotIn.outcome)) =>
           \A failed \in FailedCalls :
               slotOut.suggested_slots =
                   GetAvailableSlots(slotIn.provider, slotIn.date,
                                     slotIn.preferred_time_start, slotIn.duration,
                                     failed).suggested_slots

\* C14 witness: the scheduling pipeline answered an unparseable reply with
\* slots computed from the provider's schedule
C14_Witness ==
    /\ resp.op = "suggest"
    /\ UnparseableReply(slotIn.outcome)
    /\ Len(slotOut.suggested_slots) >= 2
    /\ slotIn.preferred_time_start = NULL

(***************************************************************************)
(* BaseAgent.execute with its prompt cache and circuit breaker             *)
(***************************************************************************)
MaxClock == 120
MaxFailures == 7

FailureThreshold == 5
BreakerTimeout == 60
ClockStep == BreakerTimeout \div 2

AgentContexts == {"x", "y"}
\* what the call of the AI comes to: a reply that _parse_response parses, a
\* reply it cannot parse and answers with the agent's fallback computation
\* (matching_agent.py 61-66, scheduling_agent.py 65-70), or an exception
AgentCallOutcomes == {"reply", "unparseable", "raise", "timeout"}
AgentReplies == {"reply", "unparseable"}

\* what _call_ai returns for a reply
ParsedAs(outcome) == IF outcome = "reply" THEN "response" ELSE "parsed_fallback"

\* prompt_cache.set: one entry per context, the latest response
CacheSet(cache, context, response) ==
    {e \in cache : e.context # context}
    \cup {[context |-> context, response |-> response]}

\* prompt_cache.get: the response cached for the context, "none" if absent
CacheGet(cache, context) ==
    IF \E e \in cache : e.context = context
    THEN (CHOOSE e \in cache : e.context = context).response
    ELSE "none"

\* CircuitBreaker.call_async: a closed breaker lets the call through; an
\* open one refuses it until the timeout has passed since the last failure
BreakerAllows(breaker, now) ==
    \/ breaker.state = "closed"
    \/ now - breaker.last_failure_time >= BreakerTimeout

BreakerOnSuccess(breaker) ==
    [breaker EXCEPT !.state = "closed", !.failure_count = 0]

BreakerOnFailure(breaker, now) ==
    LET n == breaker.failure_count + 1
    IN [state |-> IF n >= FailureThreshold THEN "open" ELSE breaker.state,
        failure_count |-> n,
        last_failure_time |-> now]

\* prompt_cache.get: not made without use_cache, an error when Redis cannot
\* be reached, else the response cached for the context, if any
CacheLookup(a, context, use_cache, redis_up) ==
    IF ~use_cache THEN "skipped"
    ELSE IF ~redis_up THEN "error"
    ELSE IF CacheGet(a.prompt_cache, context) # "none" THEN "hit"
    ELSE "miss"

AgentReturn(a, raised, attempted, result) ==
    [raised |-> raised, attempted |-> attempted, result |-> result,
     circuit_breaker |-> a.circuit_breaker, prompt_cache |-> a.prompt_cache]

\* execute calling _call_ai without going through the circuit breaker
AgentExecuteNoBreaker(a, context, use_cache, redis_up, outcome) ==
    LET lookup == CacheLookup(a, context, use_cache, redis_up)
    IN IF lookup = "error" THEN AgentReturn(a, TRUE, FALSE, "raised")
       ELSE IF lookup = "hit" THEN AgentReturn(a, FALSE, FALSE, "cached")
       ELSE IF outcome \in AgentReplies
       THEN [AgentReturn(a, FALSE, TRUE, ParsedAs(outcome)) EXCEPT
                !.circuit_breaker = BreakerOnSuccess(a.circuit_breaker),
                !.prompt_cache = IF use_cache
                                 THEN CacheSet(@, context, ParsedAs(outcome))
                                 ELSE @]
       ELSE [AgentReturn(a, FALSE, TRUE, "fallback") EXCEPT
                !.circuit_breaker = BreakerOnFailure(a.circuit_breaker, a.now)]

\* execute: the cache lookup before the try block, then the call through the
\* breaker; a reply is cached and returned, every exception (the breaker's
\* refusal included) is answered with _get_fallback_response
AgentExecute(a, context, use_cache, redis_up, outcome) ==
    LET lookup == CacheLookup(a, context, use_cache, redis_up)
    IN IF lookup = "error" THEN AgentReturn(a, TRUE, FALSE, "raised")
       ELSE IF lookup = "hit" THEN AgentReturn(a, FALSE, FALSE, "cached")
       ELSE IF ~BreakerAllows(a.circuit_breaker, a.now)
       THEN AgentReturn(a, FALSE, FALSE, "fallback")
       ELSE IF outcome \in AgentReplies
       THEN [AgentReturn(a, FALSE, TRUE, ParsedAs(outcome)) EXCEPT
                !.circuit_breaker = BreakerOnSuccess(a.circuit_breaker),
                !.prompt_cache = IF use_cache
                                 THEN CacheSet(@, context, ParsedAs(outcome))
                                 ELSE @]
       ELSE [AgentReturn(a, FALSE, TRUE, "fallback") EXCEPT
                !.circuit_breaker = BreakerOnFailure(a.circuit_breaker, a.now)]

ExecuteAgent(context, use_cache, redis_up, outcome) ==
    LET out == AgentExecute(agent, context, use_cache, redis_up, outcome)
        failed == out.attempted /\ out.result = "fallback"
    IN /\ out.circuit_breaker.failure_count <= MaxFailures
       /\ agent' = [agent EXCEPT
              !.circuit_breaker = out.circuit_breaker,
              !.prompt_cache = out.prompt_cache,
              !.streak = IF failed THEN @ + 1 ELSE IF out.attempted THEN 0 ELSE @,
              !.last_failed_at = IF failed THEN agent.now ELSE @,
              !.last = [context |-> context,
                        lookup |-> CacheLookup(agent, context, use_cache, redis_up),
                        cached |-> CacheGet(agent.prompt_cache, context),
                        streak |-> agent.streak,
                        since |-> IF agent.last_failed_at = NULL THEN NULL
                                  ELSE agent.now - agent.last_failed_at,
                        attempted |-> out.attempted,
                        result |-> out.result]]
       /\ resp' = Response("agent_execute", "none", 0,
                           IF out.raised THEN "raised" ELSE "ok")
       /\ UNCHANGED <<dbVars, sessions, slotIn, slotOut, matchIn, matchOut,
                    accounts, transactions>>

ClockAdvances ==
    /\ agent.now + ClockStep <= MaxClock
    /\ agent' = [agent EXCEPT !.now = @ + ClockStep]
    /\ resp' = Response("tick", "none", 0, "none")
    /\ UNCHANGED <<dbVars, sessions, slotIn, slotOut, matchIn, matchOut,
                    accounts, transactions>>

NextBreaker ==
    \/ \E context \in AgentContexts, use_cache \in BOOLEAN, redis_up \in BOOLEAN,
          outcome \in AgentCallOutcomes :
          ExecuteAgent(context, use_cache, redis_up, outcome)
    \/ ClockAdvances

SpecBreaker == Init /\ [][NextBreaker]_vars

AgentExecuted == resp.op = "agent_execute"

\* the call was made after 5 or more failed calls of the AI in a row, less
\* than 60 seconds after the latest of them
WithinOpenPeriod ==
    /\ agent.last.streak >= FailureThreshold
    /\ agent.last.since < BreakerTimeout

NotCached == agent.last.lookup \in {"skipped", "miss"}

NonTerminal == {"requested", "accepted", "scheduled", "in_progress"}

DisputeSucceeds == resp'.op = "dispute" /\ resp'.result = "ok"

MaxLedgerBookings == 2

LedgerIds == 1..MaxLedgerBookings
LedgerCallers == {"p1", "p2"}
LedgerReasons == {"too far", "no time"}
LedgerTimes == {Combine(0, 540)}

LedgerBookings ==
    {[NewBooking("c1", p) EXCEPT !.status = st] :
        p \in Providers, st \in {"requested", "accepted"}}

InitLedger ==
    /\ bookings \in UNION {[1..k -> LedgerBookings] : k \in 1..MaxLedgerBookings}
    /\ providers = [p \in Providers |-> [total_bookings |-> 0, completion_rate |-> 0]]
    /\ availability = [p \in Providers |-> <<>>]
    /\ time_off = [p \in Providers |-> {}]
    /\ disputes = [b \in BookingIds |-> 0]
    /\ resp = Response("none", "none", 0, "none")
    /\ sessions = IdleSessions
    /\ slotIn = NoSlotIn
    /\ slotOut = <<>>
    /\ matchIn = NoMatchIn
    /\ matchOut = NoMatchOut
    /\ agent = NewAgent
    /\ accounts = NoAccounts
    /\ transactions = <<>>

NextLedger ==
    \/ \E u \in LedgerCallers, b \in LedgerIds : AcceptBooking(u, b)
    \/ \E u \in LedgerCallers, b \in LedgerIds, r \in LedgerReasons :
          RejectBooking(u, b, r)
    \/ \E u \in LedgerCallers, b \in LedgerIds, t \in LedgerTimes :
          \E outcome \in ScheduleAgentOutcomes(u, b, t) :
              /\ outcome.kind \in {"none", "raise"}
              /\ ScheduleWith(u, b, t, outcome)
    \/ \E u \in LedgerCallers, b \in LedgerIds : StartBooking(u, b)
    \/ \E u \in LedgerCallers, b \in LedgerIds, fp \in Prices, raises \in BOOLEAN :
          CompleteBooking(u, b, fp, raises)
    \/ \E u \in LedgerCallers, b \in LedgerIds, r \in LedgerReasons :
          CancelBooking(u, b, r)

SpecLedger == InitLedger /\ [][NextLedger]_vars

OwnRequested(u, b) ==
    /\ b \in 1..Len(bookings)
    /\ Role(u) = "provider"
    /\ bookings[b].provider_id = ProviderProfileOf(u)
    /\ bookings[b].status = "requested"

\* C19: reject called by the booking's provider on a requested booking with
\* reason r succeeds and leaves that booking with status cancelled,
\* cancelled_by = provider and cancellation_reason = r, and changes no other
\* booking.
C19_RejectCancelsOnlyThatBooking ==
    [][\A u \in LedgerCallers, b \in LedgerIds, r \in LedgerReasons :
          (OwnRequested(u, b) /\ RejectBooking(u, b, r)) =>
              /\ resp'.result = "ok"
              /\ bookings'[b].status = "cancelled"
              /\ bookings'[b].cancelled_by = "provider"
              /\ bookings'[b].cancellation_reason = r
              /\ Len(bookings') = Len(bookings)
              /\ \A o \in 1..Len(bookings) : o # b => bookings'[o] = bookings[o]]_vars

\* C19 witness: one of two requested bookings of a provider was rejected,
\* the other is still requested
C19_Witness ==
    /\ resp.op = "reject" /\ resp.result = "ok"
    /\ Len(bookings) = 2
    /\ bookings[resp.bid].status = "cancelled"
    /\ bookings[resp.bid].cancellation_reason = "no time"
    /\ \E o \in 1..2 :
          /\ o # resp.bid
          /\ bookings[o].status = "requested"
          /\ bookings[o].provider_id = bookings[resp.bid].provider_id

NotifyingOps ==
    {"accept", "reject", "schedule", "start", "complete", "cancel", "dispute"}
NotifyCallers == {"c1", "p1"}

\* accept_booking creating its notification before its commit
CommitPrecedesNotificationExceptAccept(op) == op \notin {"create", "accept"}

\* where the handler calls db.commit(): create_booking_request flushes,
\* notifies and then commits; the other handlers commit and then notify
CommitPrecedesNotification(op) == op # "create"

HandlerOutcome(op, u, b, reason, scheduled_datetime, final_price, outcome) ==
    CASE op = "accept" -> AcceptOutcome(u, Rows(b))
      [] op = "reject" -> RejectOutcome(u, Rows(b), reason)
      [] op = "schedule" ->
             LET out == ScheduleOutcome(u, Rows(b), scheduled_datetime, outcome)
             IN Outcome(out.result, out.upd)
      [] op = "start" -> StartOutcome(u, Rows(b))
      [] op = "complete" -> CompleteOutcome(u, Rows(b), final_price)
      [] op = "cancel" -> CancelOutcome(u, Rows(b), reason)
      [] op = "dispute" -> DisputeOutcome(u, Rows(b), b)

\* the response when create_notification raised after the handler's changes
Notified(op, result, notify_fails) ==
    IF result = "ok" /\ notify_fails THEN "notification_failed" ELSE result

\* what the database keeps of a handler's changes
Kept(op, result, notify_fails) ==
    result = "ok" /\ (~notify_fails \/ CommitPrecedesNotification(op))

CreateWithNotification(u, p, notify_fails) ==
    /\ Len(bookings) < MaxBookings
    /\ LET result == IF Role(u) # "customer" THEN "forbidden" ELSE "ok"
       IN /\ bookings' = IF Kept("create", result, notify_fails)
                         THEN Append(bookings, NewBooking(CustomerProfileOf(u), p))
                         ELSE bookings
          /\ resp' = Response("create", u,
                              IF Kept("create", result, notify_fails)
                              THEN Len(bookings) + 1 ELSE 0,
                              Notified("create", result, notify_fails))
    /\ UNCHANGED <<providers, availability, time_off, disputes>>
    /\ UNCHANGED otherVars

RequestWithNotification(op, u, b, reason, scheduled_datetime, final_price, outcome, notify_fails) ==
    LET out == HandlerOutcome(op, u, b, reason, scheduled_datetime, final_price,
                              outcome)
        kept == Kept(op, out.result, notify_fails)
    IN /\ bookings' = IF kept THEN [bookings EXCEPT ![b] = Merge(@, out.upd)]
                      ELSE bookings
       /\ providers' = IF kept /\ op = "complete"
                       THEN [providers EXCEPT
                                ![ProviderProfileOf(u)] = CompleteStats(ProviderProfileOf(u))]
                       ELSE providers
       /\ disputes' = IF kept /\ op = "dispute"
                      THEN [disputes EXCEPT ![b] = @ + 1]
                      ELSE disputes
       /\ resp' = [Response(op, u, b, Notified(op, out.result, notify_fails))
                      EXCEPT !.dt = IF op = "schedule" THEN scheduled_datetime ELSE NULL]
       /\ UNCHANGED <<availability, time_off>>
       /\ UNCHANGED otherVars

NextNotify ==
    \/ \E u \in BookingCustomers, p \in BookingProviders, notify_fails \in BOOLEAN :
          CreateWithNotification(u, p, notify_fails)
    \/ \E op \in NotifyingOps, u \in NotifyCallers, b \in BookingIds, r \in Reasons,
          t \in ScheduleTimes, fp \in Prices, notify_fails \in BOOLEAN :
          \E outcome \in ScheduleAgentOutcomes(u, b, t) :
              /\ outcome.kind \in {"none", "raise"}
              /\ RequestWithNotification(op, u, b, r, t, fp, outcome, notify_fails)

SpecNotify == Init /\ [][NextNotify]_vars

NewStatus(op) ==
    CASE op = "accept" -> "accepted"
      [] op = "reject" -> "cancelled"
      [] op = "schedule" -> "scheduled"
      [] op = "start" -> "in_progress"
      [] op = "complete" -> "completed"
      [] op = "cancel" -> "cancelled"
      [] op = "dispute" -> "disputed"

NotificationFailed == resp'.op \in NotifyingOps /\ resp'.result = "notification_failed"

\* C21: for accept, reject, schedule, start, complete, cancel and dispute the
\* status change is committed before the notification is created: when
\* creating the notification fails, the booking has its new status and
\* fields (and the provider statistics resp. the Dispute record are kept).
C21_NotificationFailureKeepsTransition ==
    [][NotificationFailed =>
          LET op == resp'.op
              b == resp'.bid
          IN /\ bookings'[b].status = NewStatus(op)
             /\ bookings[b].status # NewStatus(op)
             /\ op = "schedule" => bookings'[b].scheduled_datetime = resp'.dt
             /\ op = "complete" =>
                    /\ bookings'[b].completed_at # NULL
                    /\ providers'[bookings[b].provider_id].total_bookings =
                           providers[bookings[b].provider_id].total_bookings + 1
             /\ op \in {"reject", "cancel"} => bookings'[b].cancelled_by # "none"
             /\ op = "dispute" => disputes'[b] = disputes[b] + 1]_vars

\* C21 witness: a booking was scheduled although the notification failed
C21_Witness ==
    /\ resp.op = "schedule" /\ resp.result = "notification_failed"
    /\ bookings[resp.bid].status = "scheduled"
    /\ bookings[resp.bid].scheduled_datetime = resp.dt

(***************************************************************************)
(* Registration (api/auth.py): two requests may be in flight; each checks  *)
(* email and phone with a SELECT and then inserts and commits              *)
(***************************************************************************)
MaxUsers == 3

Emails == {"a@test.com", "b@test.com"}
Phones == {"none", "+923001111111"}
RegisterRoles == {"customer", "provider"}

EmailRegistered(email) ==
    \E i \in 1..Len(accounts.users) : accounts.users[i].email = email

PhoneRegistered(phone) ==
    \E i \in 1..Len(accounts.users) : accounts.users[i].phone = phone

\* the registration checks looking at the phone number alone
RegisterCheckResultPhoneOnly(email, phone) ==
    IF phone # "none" /\ PhoneRegistered(phone) THEN "conflict"
    ELSE "checked"

\* the two SELECTs at the head of register_customer / register_provider
RegisterCheckResult(email, phone) ==
    IF EmailRegistered(email) THEN "conflict"
    ELSE IF phone # "none" /\ PhoneRegistered(phone) THEN "conflict"
    ELSE "checked"

\* the INSERT under the unique constraints of users.email and users.phone
InsertViolatesUnique(email, phone) ==
    \/ EmailRegistered(email)
    \/ phone # "none" /\ PhoneRegistered(phone)

RegisterCheck(r, role, email, phone) ==
    /\ sessions[r].pc = "idle"
    /\ Len(accounts.users) < MaxUsers
    /\ LET result == RegisterCheckResult(email, phone)
       IN /\ sessions' = IF result = "checked"
                         THEN [sessions EXCEPT ![r] =
                                  [pc |-> "checked", op |-> "register", role |-> role,
                                   email |-> email, phone |-> phone]]
                         ELSE sessions
          /\ resp' = Response("register", email, 0, result)
    /\ UNCHANGED <<dbVars, slotIn, slotOut, matchIn, matchOut, agent,
                   accounts, transactions>>

\* flush and commit: the user row and its profile, or an IntegrityError that
\* get_db answers with a rollback
RegisterInsert(r) ==
    /\ sessions[r].pc = "checked"
    /\ LET ses == sessions[r]
           id == Len(accounts.users) + 1
       IN IF InsertViolatesUnique(ses.email, ses.phone)
          THEN /\ accounts' = accounts
               /\ resp' = Response("register_insert", ses.email, 0, "server_error")
          ELSE /\ accounts' =
                     [users |-> Append(accounts.users,
                                       [email |-> ses.email, phone |-> ses.phone,
                                        role |-> ses.role]),
                      customer_profiles |->
                          IF ses.role = "customer"
                          THEN Append(accounts.customer_profiles, id)
                          ELSE accounts.customer_profiles,
                      provider_profiles |->
                          IF ses.role = "provider"
                          THEN Append(accounts.provider_profiles, id)
                          ELSE accounts.provider_profiles]
               /\ resp' = Response("register_insert", ses.email, id, "created")
    /\ sessions' = [sessions EXCEPT ![r] = IdleSession]
    /\ UNCHANGED <<dbVars, slotIn, slotOut, matchIn, matchOut, agent, transactions>>

NextAuth ==
    \/ \E r \in Requests, role \in RegisterRoles, email \in Emails, phone \in Phones :
          RegisterCheck(r, role, email, phone)
    \/ \E r \in Requests : RegisterInsert(r)

SpecAuth == Init /\ [][NextAuth]_vars

NoSharedEmail ==
    \A i, j \in 1..Len(accounts.users) :
        i # j => accounts.users[i].email # accounts.users[j].email

\* C22: a registration (customer or provider) with an email that already
\* belongs to a user is rejected with a conflict and creates no user and no
\* profile; in every state no two users share an email.
C22_DuplicateEmailRejected ==
    /\ []NoSharedEmail
    /\ [][(resp'.op = "register" /\ EmailRegistered(resp'.user)) =>
              /\ resp'.result = "conflict"
              /\ accounts' = accounts]_vars

\* C22 witness: a registration with a registered email was refused while
\* another user exists beside that one
C22_Witness ==
    /\ resp.op = "register" /\ resp.result = "conflict"
    /\ EmailRegistered(resp.user)
    /\ Len(accounts.users) = 2
    /\ Len(accounts.customer_profiles) = 1
    /\ Len(accounts.provider_profiles) = 1

(***************************************************************************)
(* Overlap of a provider's scheduled work                                  *)
(***************************************************************************)
Occupying == {"scheduled", "in_progress"}

IntervalsOverlap(x, y) ==
    /\ x.scheduled_datetime < y.scheduled_datetime + BookingDuration(y)
    /\ y.scheduled_datetime < x.scheduled_datetime + BookingDuration(x)

\* C23: any two distinct bookings of one provider that are scheduled or in
\* progress occupy intervals [scheduled_datetime, scheduled_datetime +
\* duration) that do not overlap.
C23_NoOverlappingSchedule ==
    \A i, j \in 1..Len(bookings) :
        (/\ i # j
         /\ bookings[i].provider_id = bookings[j].provider_id
         /\ bookings[i].status \in Occupying
         /\ bookings[j].status \in Occupying)
        => ~IntervalsOverlap(bookings[i], bookings[j])

(***************************************************************************)
(* create_dispute requests in flight together: each reads the booking and  *)
(* looks for a dispute of it in its own session, then adds its Dispute row *)
(* and commits.  disputes.booking_id is indexed, not unique.               *)
(***************************************************************************)
\* the handler up to and including its SELECT of the booking's dispute
BeginDispute(r, u, b) ==
    /\ sessions[r].pc = "idle"
    /\ sessions' = [sessions EXCEPT ![r] =
                       [pc |-> "read", op |-> "dispute", user |-> u, bid |-> b,
                        rows |-> Rows(b),
                        concurrent |-> \E q \in Requests \ {r} :
                                          sessions[q].pc = "read" /\ sessions[q].bid = b,
                        result |-> DisputeOutcome(u, Rows(b), b).result]]
    /\ UNCHANGED <<dbVars, resp, slotIn, slotOut, matchIn, matchOut, agent,
                   accounts, transactions>>

\* the rest of the handler: db.add(dispute), booking.status, commit
FinishDispute(r) ==
    /\ sessions[r].pc = "read"
    /\ sessions[r].op = "dispute"
    /\ LET ses == sessions[r]
           out == IF ses.result = "ok"
                  THEN Outcome("ok", [status |-> "disputed"])
                  ELSE Outcome(ses.result, NoUpd)
       IN /\ Write(ses.bid, out)
          /\ disputes' = IF out.result = "ok"
                         THEN [disputes EXCEPT ![ses.bid] = @ + 1]
                         ELSE disputes
          /\ sessions' = [sessions EXCEPT ![r] = IdleSession]
          /\ resp' = Response("dispute", ses.user, ses.bid, out.result)
    /\ UNCHANGED <<providers, availability, time_off,
                   slotIn, slotOut, matchIn, matchOut, agent, accounts, transactions>>

NextDisputes ==
    \/ \E r \in Requests, u \in Callers, b \in BookingIds : BeginDispute(r, u, b)
    \/ \E r \in Requests : FinishDispute(r)
    \/ \E u \in Callers, b \in BookingIds : StartBooking(u, b)

SpecDisputes == InitConc /\ [][NextDisputes]_vars

\* C24: every booking has at most one Dispute record, also when
\* create_dispute requests for the same booking interleave.
C24_AtMostOneDispute == \A b \in BookingIds : disputes[b] <= 1

(***************************************************************************)
(* find_matching_providers when the agent replies with the JSON object     *)
(***************************************************************************)
IsCandidate(id, providers_data) ==
    \E i \in 1..Len(providers_data) : providers_data[i].id = id

\* C25: when the agent call succeeds, find_matching_providers returns only
\* matches that name one of the candidates found for the request, sorted by
\* non-increasing match_score and at most 10 of them; the agent's matches that
\* name a candidate are all there when they are no more than 10, the others
\* are dropped.
C25_AgentMatchesEnriched ==
    (/\ matchIn.call = "find_matching_providers"
     /\ matchIn.service_found
     /\ matchIn.providers # <<>>
     /\ ~AgentCallFails(matchIn.outcome))
    => /\ ~matchOut.raised
       /\ LET found == matchOut.value
              said == matchIn.outcome.content.matches
              named == {i \in 1..Len(said) : IsCandidate(said[i].provider_id, matchIn.providers)}
          IN /\ Len(found) <= MatchCap
             /\ \A i \in 1..Len(found) : IsCandidate(found[i].provider_id, matchIn.providers)
             /\ \A i \in 1..Len(found) : \E j \in named : found[i] = said[j]
             /\ \A i, j \in 1..Len(found) :
                    i < j => found[i].match_score >= found[j].match_score
             /\ Cardinality(named) <= MatchCap => Len(found) = Cardinality(named)

(***************************************************************************)
(* Who may schedule a booking or raise a dispute on it                     *)
(***************************************************************************)
Involved(u, row) ==
    \/ Role(u) = "admin"
    \/ CustomerProfileOf(u) # "none" /\ row.customer_id = CustomerProfileOf(u)
    \/ ProviderProfileOf(u) # "none" /\ row.provider_id = ProviderProfileOf(u)

\* C26: schedule_booking and create_dispute answer a caller who is neither the
\* booking's customer, nor its provider, nor an admin with not-found (and so
\* change neither the booking nor its disputes).
C26_OutsidersGetNotFound ==
    (/\ resp.op \in {"schedule", "dispute"}
     /\ resp.bid \in 1..Len(bookings)
     /\ ~Involved(resp.user, bookings[resp.bid]))
    => resp.result = "not_found"

(***************************************************************************)
(* The scheduling fallback after a failed agent call                       *)
(***************************************************************************)
\* the slot list get_available_slots computed for the call just made
ComputedSlots == AvailableSlots(slotIn.provider, slotIn.date, slotIn.duration)

SchedulingAgentFailed == resp.op = "suggest" /\ slotIn.outcome.kind \in AgentFailures

\* C27: after a failed agent call the scheduling fallback returns the first 5
\* computed slots in their order, each with confidence 0.8, when there are
\* any; with none and a preferred date and start time, 3 slots of 2 hours
\* that start at the preferred time and follow each other 2 hours apart;
\* otherwise no slot.
C27_SchedulingFallbackSlots ==
    SchedulingAgentFailed =>
        LET slots == slotOut.suggested_slots
            base == Combine(slotIn.date, slotIn.preferred_time_start)
        IN IF ComputedSlots # <<>>
           THEN /\ Len(slots) = Min(5, Len(ComputedSlots))
                /\ \A i \in 1..Len(slots) :
                      /\ slots[i].start_datetime = ComputedSlots[i].start
                      /\ slots[i].end_datetime = ComputedSlots[i].end
                      /\ slots[i].confidence = 8
           ELSE IF slotIn.date # NULL /\ slotIn.preferred_time_start # NULL
           THEN /\ Len(slots) = 3
                /\ \A i \in 1..3 :
                      /\ slots[i].start_datetime = IsoFormat(base + (i - 1) * 120)
                      /\ slots[i].end_datetime = IsoFormat(base + (i - 1) * 120 + 120)
           ELSE slots = <<>>

\* C27 witness: the agent call failed where more than 5 slots were computed,
\* and 5 came back
C27_Witness ==
    /\ SchedulingAgentFailed
    /\ Len(ComputedSlots) > 5
    /\ Len(slotOut.suggested_slots) = 5

(***************************************************************************)
(* complete_booking requests in flight together: each loads the provider   *)
(* profile and the booking in its own session, then tests the status it    *)
(* read, adds one to the total_bookings it read and commits.               *)
(***************************************************************************)
MaxCompletions == 2

CompletionIds == 1..MaxCompletions
CompletionCallers == {"p1", "p2"}

InProgressBookings ==
    {[NewBooking("c1", p) EXCEPT !.status = "in_progress",
                                 !.scheduled_datetime = Combine(0, 540)] :
        p \in Providers}

InitCompletions ==
    /\ bookings \in [CompletionIds -> InProgressBookings]
    /\ providers = [p \in Providers |-> [total_bookings |-> 0, completion_rate |-> 0]]
    /\ availability = [p \in Providers |-> <<>>]
    /\ time_off = [p \in Providers |-> {}]
    /\ disputes = [b \in BookingIds |-> 0]
    /\ resp = Response("none", "none", 0, "none")
    /\ sessions = IdleSessions
    /\ slotIn = NoSlotIn
    /\ slotOut = <<>>
    /\ matchIn = NoMatchIn
    /\ matchOut = NoMatchOut
    /\ agent = NewAgent
    /\ accounts = NoAccounts
    /\ transactions = <<>>

\* the handler up to and including its SELECTs of the provider and the booking
BeginComplete(r, u, b) ==
    /\ sessions[r].pc = "idle"
    /\ sessions' = [sessions EXCEPT ![r] =
                       [pc |-> "read", op |-> "complete", user |-> u, bid |-> b,
                        rows |-> Rows(b),
                        total_bookings |-> providers[u].total_bookings,
                        concurrent |-> \E q \in Requests \ {r} : sessions[q].pc = "read",
                        result |-> "none"]]
    /\ UNCHANGED <<dbVars, resp, slotIn, slotOut, matchIn, matchOut, agent,
                   accounts, transactions>>

\* the rest of the handler: guard, assignments, the two counts, commit
FinishComplete(r, final_price) ==
    /\ sessions[r].pc = "read"
    /\ LET ses == sessions[r]
           out == CompleteOutcome(ses.user, ses.rows, final_price)
       IN /\ Write(ses.bid, out)
          /\ providers' = IF out.result = "ok"
                          THEN [providers EXCEPT ![ses.user] =
                                   [CompleteStats(ses.user) EXCEPT
                                       !.total_bookings = ses.total_bookings + 1]]
                          ELSE providers
          /\ sessions' = [sessions EXCEPT ![r] = IdleSession]
          /\ resp' = Response("complete", ses.user, ses.bid, out.result)
    /\ UNCHANGED <<availability, time_off, disputes,
                   slotIn, slotOut, matchIn, matchOut, agent, accounts, transactions>>

NextCompletions ==
    \/ \E r \in Requests, u \in CompletionCallers, b \in CompletionIds :
          BeginComplete(r, u, b)
    \/ \E r \in Requests, fp \in Prices : FinishComplete(r, fp)

SpecCompletions == InitCompletions /\ [][NextCompletions]_vars

CompletedOf(p) ==
    {b \in 1..Len(bookings) :
        bookings[b].provider_id = p /\ bookings[b].completed_at # NULL}

C29_FallbackNeverCached ==
    /\ \A e \in agent.prompt_cache : e.response = "response"
    /\ (AgentExecuted /\ agent.last.lookup = "hit") => agent.last.cached = "response"

(***************************************************************************)
(* MockPaymentGateway.initiate_payment behind POST /payments/initiate      *)
(***************************************************************************)
MaxTransactions == 2

MaxAmount == 1000000
PaymentAmounts == {0, 500, 800, MaxAmount + 1}
PaymentMethods == {"card", "cash"}
\* the idempotency key of the request, "none" when it sends none
PaymentIntents == {"none", "pi_a", "pi_b"}
PaymentBookings == {1, 2}

InitPayments ==
    /\ bookings = <<NewBooking("c1", "p1")>>
    /\ providers = [p \in Providers |-> [total_bookings |-> 0, completion_rate |-> 0]]
    /\ availability = [p \in Providers |-> <<>>]
    /\ time_off = [p \in Providers |-> {}]
    /\ disputes = [b \in BookingIds |-> 0]
    /\ resp = Response("none", "none", 0, "none")
    /\ sessions = IdleSessions
    /\ slotIn = NoSlotIn
    /\ slotOut = <<>>
    /\ matchIn = NoMatchIn
    /\ matchOut = NoMatchOut
    /\ agent = NewAgent
    /\ accounts = NoAccounts
    /\ transactions = <<>>

PaymentRequest(booking_id, amount, payment_method, payment_intent_id) ==
    [booking_id |-> booking_id, amount |-> amount,
     payment_method |-> payment_method, payment_intent_id |-> payment_intent_id]

\* f"pi_{uuid.uuid4().hex}": a key no transaction has
GeneratedIntent(txns) == "pi_" \o ToString(Len(txns) + 1)

\* select(PaymentTransaction).where(payment_intent_id == ...): its place in
\* the table, 0 when there is none
TransactionOfIntent(txns, payment_intent_id) ==
    LET found == {i \in 1..Len(txns) : txns[i].payment_intent_id = payment_intent_id}
    IN IF found = {} THEN 0 ELSE CHOOSE i \in found : \A j \in found : i <= j

PaymentResult(result, returned, txns) ==
    [result |-> result, returned |-> returned, transactions |-> txns]

\* initiate_payment inserting without looking for the idempotency key
InitiatePaymentOutcomeNoLookup(txns, rows, req) ==
    IF req.amount <= 0 \/ req.amount > MaxAmount
    THEN PaymentResult("validation_error", <<>>, txns)
    ELSE IF rows = <<>> THEN PaymentResult("validation_error", <<>>, txns)
    ELSE LET payment_intent_id == IF req.payment_intent_id = "none"
                                  THEN GeneratedIntent(txns)
                                  ELSE req.payment_intent_id
             transaction == [booking_id |-> req.booking_id,
                             payment_intent_id |-> payment_intent_id,
                             amount |-> req.amount,
                             status |-> "initiated",
                             payment_method |-> req.payment_method]
         IN PaymentResult("created", <<transaction>>, Append(txns, transaction))

\* rows: what the SELECT of the booking returned
InitiatePaymentOutcome(txns, rows, req) ==
    IF req.amount <= 0 \/ req.amount > MaxAmount
    THEN PaymentResult("validation_error", <<>>, txns)
    ELSE IF rows = <<>> THEN PaymentResult("validation_error", <<>>, txns)
    ELSE LET payment_intent_id == IF req.payment_intent_id = "none"
                                  THEN GeneratedIntent(txns)
                                  ELSE req.payment_intent_id
             existing_txn == TransactionOfIntent(txns, payment_intent_id)
             transaction == [booking_id |-> req.booking_id,
                             payment_intent_id |-> payment_intent_id,
                             amount |-> req.amount,
                             status |-> "initiated",
                             payment_method |-> req.payment_method]
         IN IF existing_txn # 0
            THEN PaymentResult("existing", <<txns[existing_txn]>>, txns)
            ELSE PaymentResult("created", <<transaction>>, Append(txns, transaction))

\* POST /payments/initiate: validate_price(amount, min_price=1), then the call
InitiatePayment(req) ==
    LET out == IF req.amount < 1
               THEN PaymentResult("validation_error", <<>>, transactions)
               ELSE InitiatePaymentOutcome(transactions, Rows(req.booking_id), req)
    IN /\ Len(out.transactions) <= MaxTransactions
       /\ transactions' = out.transactions
       /\ resp' = [op |-> "initiate_payment", user |-> "none",
                   bid |-> req.booking_id, result |-> out.result,
                   request |-> req, returned |-> out.returned]
       /\ UNCHANGED <<dbVars, sessions, slotIn, slotOut, matchIn, matchOut,
                      agent, accounts>>

NextPayments ==
    \E booking_id \in PaymentBookings, amount \in PaymentAmounts,
       payment_method \in PaymentMethods, payment_intent_id \in PaymentIntents :
        InitiatePayment(PaymentRequest(booking_id, amount, payment_method,
                                       payment_intent_id))

SpecPayments == InitPayments /\ [][NextPayments]_vars

OnePerIntent ==
    \A i, j \in 1..Len(transactions) :
        i # j => transactions[i].payment_intent_id # transactions[j].payment_intent_id

\* the call just answered carried a key that a transaction had before it
CalledWithKnownIntent ==
    /\ resp'.op = "initiate_payment"
    /\ TransactionOfIntent(transactions, resp'.request.payment_intent_id) # 0

ReturnsExisting ==
    /\ resp'.result = "existing"
    /\ resp'.returned =
           <<transactions[TransactionOfIntent(transactions,
                                              resp'.request.payment_intent_id)]>>
    /\ transactions' = transactions

====
